---------------------------- MODULE Spec2Model ----------------------------
(***************************************************************************)
(* Model of frame/contracts/src/benchmarking.rs: the wasm module builder   *)
(* (create_code), the three instruction emission policies (body,           *)
(* body_repeated, body_counted) and the module definitions of the          *)
(* benchmark catalog.                                                      *)
(*                                                                         *)
(* One behaviour is one scenario setup executed MaxRuns times with the     *)
(* same parameters: the call body is emitted by the chosen policy and the  *)
(* module is assembled and serialised by create_code.                      *)
(***************************************************************************)
EXTENDS Integers, Sequences, FiniteSets, TLC

VARIABLES
    params,        \* the scenario parameters (fixed for the whole behaviour)
    run,           \* number of the current run of the scenario, 1..MaxRuns
    pc,            \* "setup" | "counting" | "emitted" | "done"
    instructions,  \* body_counted: its `mut instructions` vector
    collected,     \* body_counted: the instructions yielded by the map so far
    call_body,     \* the Option<FuncBody> the emission policy produced
    built,         \* one record per finished run: def, module, code, hash
    \* The benchmark driver (DriverSpec): one benchmark of benchmarks! executed
    \* against the pallet's storage.
    bench,             \* the benchmark and its parameters (fixed for the behaviour)
    runtime,           \* the constants of T: Trait (fixed for the behaviour)
    phase,             \* "setup" | "dispatch" | "verify" | "done"
    stmt,              \* index of the next statement of the current block
    free_balance,      \* T::Currency: account -> free balance
    code_storage,      \* the code registry: the set of deployed code hashes
    contract_info_of,  \* ContractInfoOf<T>: account -> ContractInfo
    block_number,      \* System::block_number()
    fixtures,          \* the Contract / Tombstone fixtures the setup returned
    outcome,           \* None while running, then Some(Ok(..)) or Some(Err(..))
    dispatched         \* the extrinsics dispatched so far, in order

builder_vars == <<params, run, pc, instructions, collected, call_body, built>>
driver_vars == <<bench, runtime, phase, stmt, free_balance, code_storage,
                 contract_info_of, block_number, fixtures, outcome, dispatched>>
vars == <<builder_vars, driver_vars>>

(***************************************************************************)
(* Bounds of the model.                                                    *)
(***************************************************************************)
MaxRuns == 2
MaxImports == 2
MaxSegments == 2
MaxSeqLen == 2
MaxRepetitions == 3

(***************************************************************************)
(* Option<T>: None is the empty sequence, Some(x) the one-element one.     *)
(***************************************************************************)
None == <<>>
Some(x) == <<x>>
unwrap_or_else(opt, fallback) == IF opt = None THEN fallback ELSE opt[1]

SeqsUpTo(S, n) == UNION {[1..k -> S] : k \in 0..n}

(***************************************************************************)
(* parity_wasm::elements::Instruction, the variants the file uses.  Every  *)
(* instruction is a record [op, arg]; arg is 0 for the operand-less ones.  *)
(***************************************************************************)
BlockType_NoResult == 64

I32Const(v) == [op |-> "I32Const", arg |-> v]
I64Const(v) == [op |-> "I64Const", arg |-> v]
Call(k) == [op |-> "Call", arg |-> k]
If(block_type) == [op |-> "If", arg |-> block_type]
End == [op |-> "End", arg |-> 0]
Drop == [op |-> "Drop", arg |-> 0]
Return == [op |-> "Return", arg |-> 0]
Nop == [op |-> "Nop", arg |-> 0]
Else == [op |-> "Else", arg |-> 0]
Unreachable == [op |-> "Unreachable", arg |-> 0]
I32Eqz == [op |-> "I32Eqz", arg |-> 0]

\* `x as i32` for a u32 x: the value with the same 32 bits.
as_i32(x) == IF x <= 2147483647 THEN x ELSE ((x - 2147483647) - 1) - 2147483647 - 1

(***************************************************************************)
(* FuncBody and Instructions.                                              *)
(***************************************************************************)
FuncBody_new(locals, code) == [locals |-> locals, code |-> code]

\* Mutant: an empty instruction list without the end marker.
Instructions_empty_unterminated == <<>>

\* Instructions::empty(): the end marker alone.
Instructions_empty == <<End>>

(***************************************************************************)
(* The data model of the file.                                             *)
(***************************************************************************)
ImportedFunction(name, fparams, return_type) ==
    [name |-> name, params |-> fparams, return_type |-> return_type]

ImportedMemory(min_pages, max_pages) ==
    [min_pages |-> min_pages, max_pages |-> max_pages]

DataSegment(offset, value) == [offset |-> offset, value |-> value]

Counter(offset, increment_by) ==
    [kind |-> "Counter", offset |-> offset, increment_by |-> increment_by,
     instruction |-> End]
Regular(instruction) ==
    [kind |-> "Regular", offset |-> 0, increment_by |-> 0,
     instruction |-> instruction]

ModuleDefinition(data_segments, memory, imported_functions, deploy_body, body_of_call) ==
    [data_segments |-> data_segments, memory |-> memory,
     imported_functions |-> imported_functions,
     deploy_body |-> deploy_body, call_body |-> body_of_call]

ModuleDefinition_default == ModuleDefinition(<<>>, None, <<>>, None, None)

(***************************************************************************)
(* The emission policies.                                                  *)
(***************************************************************************)
body(instrs) == FuncBody_new(<<>>, instrs)

\* instructions.iter().cycle().take(len * repetitions): item j (0-based) of
\* the cycle is instructions[j mod len]; an empty slice cycles to nothing.
cycle_take(instrs, count) ==
    IF Len(instrs) = 0 THEN <<>>
    ELSE [j \in 1..count |-> instrs[((j - 1) % Len(instrs)) + 1]]

\* Mutant: take(len + repetitions) in place of take(len * repetitions).
body_repeated_adding(repetitions, instrs) ==
    FuncBody_new(<<>>, Append(cycle_take(instrs, Len(instrs) + repetitions), End))

body_repeated(repetitions, instrs) ==
    FuncBody_new(<<>>, Append(cycle_take(instrs, Len(instrs) * repetitions), End))

\* Mutant: the counter advanced before its value is read.
counted_map_preincrement(instrs, idx) ==
    IF instrs[idx].kind = "Counter"
    THEN LET current == instrs[idx].offset + instrs[idx].increment_by
         IN  [yield |-> I32Const(as_i32(current)),
              instructions |-> [instrs EXCEPT ![idx].offset = current]]
    ELSE [yield |-> instrs[idx].instruction, instructions |-> instrs]

\* Mutant: a Counter that is read advances every Counter of the vector.
counted_map_advancing_all(instrs, idx) ==
    IF instrs[idx].kind = "Counter"
    THEN [yield |-> I32Const(as_i32(instrs[idx].offset)),
          instructions |->
              [k \in DOMAIN instrs |->
                  IF instrs[k].kind = "Counter"
                  THEN [instrs[k] EXCEPT !.offset = @ + instrs[k].increment_by]
                  ELSE instrs[k]]]
    ELSE [yield |-> instrs[idx].instruction, instructions |-> instrs]

\* The closure of body_counted's map, applied to index idx (1-based here):
\* the instruction it yields and the vector as it leaves it.
counted_map(instrs, idx) ==
    IF instrs[idx].kind = "Counter"
    THEN LET current == instrs[idx].offset
         IN  [yield |-> I32Const(as_i32(current)),
              instructions |->
                  [instrs EXCEPT ![idx].offset = @ + instrs[idx].increment_by]]
    ELSE [yield |-> instrs[idx].instruction, instructions |-> instrs]

\* Mutant: the vector of the previous call is used again when there is one.
body_counted_argument_leftover(argument) ==
    IF instructions = <<>> THEN argument ELSE instructions

\* body_counted takes its vector by value: the local starts as the argument.
body_counted_argument(argument) == argument

\* Mutant: the End is not chained.
body_counted_collect_unterminated(yielded) == FuncBody_new(<<>>, yielded)

\* .chain(once(End)).collect() and FuncBody::new
body_counted_collect(yielded) == FuncBody_new(<<>>, Append(yielded, End))

(***************************************************************************)
(* parity_wasm's module builder, as create_code drives it: the sections    *)
(* of the module under construction.  Indices are 0-based as in wasm.      *)
(***************************************************************************)
builder_module ==
    [types |-> <<>>, import |-> <<>>, functions |-> <<>>, export |-> <<>>,
     code |-> <<>>, data |-> <<>>]

signature(sparams, return_type) == [params |-> sparams, return_type |-> return_type]

\* An inline signature is looked up among the types and pushed when new.
HasType(types, sig) == \E i \in 1..Len(types) : types[i] = sig
resolve_type_ref(types, sig) ==
    IF HasType(types, sig)
    THEN (CHOOSE i \in 1..Len(types) :
              types[i] = sig /\ \A j \in 1..(i - 1) : types[j] # sig) - 1
    ELSE Len(types)
push_type(types, sig) == IF HasType(types, sig) THEN types ELSE Append(types, sig)

\* .function().signature()...build().with_body(b).build()
push_function(contract, sig, fbody) ==
    [contract EXCEPT !.types = push_type(@, sig),
                     !.functions = Append(@, resolve_type_ref(contract.types, sig)),
                     !.code = Append(@, fbody)]

\* .export().field(f).internal().func(index).build()
push_export(contract, field, index) ==
    [contract EXCEPT !.export =
        Append(@, [field |-> field, kind |-> "Function", index |-> index])]

\* Mutant: the maximum is left out of the memory import.
import_memory_unbounded(contract, memory) ==
    [contract EXCEPT !.import =
        Append(@, [module |-> "env", field |-> "memory", kind |-> "Memory",
                   type_ref |-> 0, initial |-> memory.min_pages,
                   maximum |-> None])]

\* .import().module("env").field("memory").external().memory(min, Some(max)).build()
import_memory(contract, memory) ==
    [contract EXCEPT !.import =
        Append(@, [module |-> "env", field |-> "memory", kind |-> "Memory",
                   type_ref |-> 0, initial |-> memory.min_pages,
                   maximum |-> Some(memory.max_pages)])]

\* One turn of the loop over def.imported_functions.
import_function(contract, func) ==
    LET sig == signature(func.params, func.return_type)
    IN  [contract EXCEPT !.types = push_type(@, sig),
                         !.import =
            Append(@, [module |-> "seal0", field |-> func.name, kind |-> "Function",
                       type_ref |-> resolve_type_ref(contract.types, sig),
                       initial |-> 0, maximum |-> None])]

\* One turn of the loop over def.data_segments.
push_data(contract, data) ==
    [contract EXCEPT !.data =
        Append(@, [index |-> 0,
                   offset |-> <<I32Const(as_i32(data.offset)), End>>,
                   value |-> data.value])]

\* Mutant: the imports registered from the last declared to the first.
RECURSIVE import_functions_reversed(_, _)
import_functions_reversed(contract, funcs) ==
    IF funcs = <<>> THEN contract
    ELSE import_functions_reversed(import_function(contract, funcs[Len(funcs)]),
                                   SubSeq(funcs, 1, Len(funcs) - 1))

RECURSIVE import_functions(_, _)
import_functions(contract, funcs) ==
    IF funcs = <<>> THEN contract
    ELSE import_functions(import_function(contract, Head(funcs)), Tail(funcs))

\* Mutant: a segment without bytes is skipped.
RECURSIVE push_data_segments_skipping(_, _)
push_data_segments_skipping(contract, segments) ==
    IF segments = <<>> THEN contract
    ELSE push_data_segments_skipping(
             IF Head(segments).value = <<>> THEN contract
             ELSE push_data(contract, Head(segments)),
             Tail(segments))

RECURSIVE push_data_segments(_, _)
push_data_segments(contract, segments) ==
    IF segments = <<>> THEN contract
    ELSE push_data_segments(push_data(contract, Head(segments)), Tail(segments))

\* Mutant: the memory import counted as if it took a function index.
func_offset_counting_memory(def) == Len(def.imported_functions) + Len(def.memory)

\* internal functions start at that offset.
func_offset(def) == Len(def.imported_functions)

\* The module create_code hands to build(): everything before to_bytes.
build_module(def) ==
    LET empty_sig == signature(<<>>, None)
        c1 == push_function(builder_module, empty_sig,
                  unwrap_or_else(def.deploy_body, FuncBody_new(<<>>, Instructions_empty)))
        c2 == push_function(c1, empty_sig,
                  unwrap_or_else(def.call_body, FuncBody_new(<<>>, Instructions_empty)))
        c3 == push_export(c2, "deploy", func_offset(def))
        c4 == push_export(c3, "call", func_offset(def) + 1)
        c5 == IF def.memory # None THEN import_memory(c4, def.memory[1]) ELSE c4
        c6 == import_functions(c5, def.imported_functions)
    IN  push_data_segments(c6, def.data_segments)

(***************************************************************************)
(* Serialisation (Module::to_bytes): the wasm binary format.               *)
(***************************************************************************)
RECURSIVE VarUint32(_)
VarUint32(n) ==
    IF n < 128 THEN <<n>> ELSE <<(n % 128) + 128>> \o VarUint32(n \div 128)

\* Signed LEB128 (VarInt32 and VarInt64 alike).
RECURSIVE VarInt(_)
VarInt(n) ==
    LET low == n % 128
        rest == (n - low) \div 128
    IN  IF (rest = 0 /\ low < 64) \/ (rest = -1 /\ low >= 64)
        THEN <<low>>
        ELSE <<low + 128>> \o VarInt(rest)

\* The concatenation of seqs[lo..hi], by halves.
RECURSIVE FlattenRange(_, _, _)
FlattenRange(seqs, lo, hi) ==
    IF lo > hi THEN <<>>
    ELSE IF lo = hi THEN seqs[lo]
    ELSE LET mid == (lo + hi) \div 2
         IN  FlattenRange(seqs, lo, mid) \o FlattenRange(seqs, mid + 1, hi)

Flatten(seqs) == FlattenRange(seqs, 1, Len(seqs))

\* The UTF-8 bytes of the names the file uses.
Utf8(s) ==
    CASE
       s = "deploy" -> <<100, 101, 112, 108, 111, 121>>
    [] s = "call" -> <<99, 97, 108, 108>>
    [] s = "env" -> <<101, 110, 118>>
    [] s = "memory" -> <<109, 101, 109, 111, 114, 121>>
    [] s = "seal0" -> <<115, 101, 97, 108, 48>>
    [] s = "gas" -> <<103, 97, 115>>
    [] s = "seal_caller" -> <<115, 101, 97, 108, 95, 99, 97, 108, 108, 101, 114>>
    [] s = "seal_address" -> <<115, 101, 97, 108, 95, 97, 100, 100, 114, 101, 115, 115>>
    [] s = "seal_gas_left" -> <<115, 101, 97, 108, 95, 103, 97, 115, 95, 108, 101, 102, 116>>
    [] s = "seal_balance" -> <<115, 101, 97, 108, 95, 98, 97, 108, 97, 110, 99, 101>>
    [] s = "seal_value_transferred" -> <<115, 101, 97, 108, 95, 118, 97, 108, 117, 101, 95, 116, 114, 97, 110, 115, 102, 101, 114, 114, 101, 100>>
    [] s = "seal_minimum_balance" -> <<115, 101, 97, 108, 95, 109, 105, 110, 105, 109, 117, 109, 95, 98, 97, 108, 97, 110, 99, 101>>
    [] s = "seal_tombstone_deposit" -> <<115, 101, 97, 108, 95, 116, 111, 109, 98, 115, 116, 111, 110, 101, 95, 100, 101, 112, 111, 115, 105, 116>>
    [] s = "seal_rent_allowance" -> <<115, 101, 97, 108, 95, 114, 101, 110, 116, 95, 97, 108, 108, 111, 119, 97, 110, 99, 101>>
    [] s = "seal_block_number" -> <<115, 101, 97, 108, 95, 98, 108, 111, 99, 107, 95, 110, 117, 109, 98, 101, 114>>
    [] s = "seal_now" -> <<115, 101, 97, 108, 95, 110, 111, 119>>
    [] s = "seal_weight_to_fee" -> <<115, 101, 97, 108, 95, 119, 101, 105, 103, 104, 116, 95, 116, 111, 95, 102, 101, 101>>
    [] s = "seal_input" -> <<115, 101, 97, 108, 95, 105, 110, 112, 117, 116>>
    [] s = "seal_return" -> <<115, 101, 97, 108, 95, 114, 101, 116, 117, 114, 110>>
    [] s = "seal_terminate" -> <<115, 101, 97, 108, 95, 116, 101, 114, 109, 105, 110, 97, 116, 101>>
    [] s = "seal_restore_to" -> <<115, 101, 97, 108, 95, 114, 101, 115, 116, 111, 114, 101, 95, 116, 111>>
    [] s = "seal_random" -> <<115, 101, 97, 108, 95, 114, 97, 110, 100, 111, 109>>
    [] s = "seal_deposit_event" -> <<115, 101, 97, 108, 95, 100, 101, 112, 111, 115, 105, 116, 95, 101, 118, 101, 110, 116>>
    [] s = "seal_set_rent_allowance" -> <<115, 101, 97, 108, 95, 115, 101, 116, 95, 114, 101, 110, 116, 95, 97, 108, 108, 111, 119, 97, 110, 99, 101>>
    [] s = "seal_set_storage" -> <<115, 101, 97, 108, 95, 115, 101, 116, 95, 115, 116, 111, 114, 97, 103, 101>>
    [] s = "seal_clear_storage" -> <<115, 101, 97, 108, 95, 99, 108, 101, 97, 114, 95, 115, 116, 111, 114, 97, 103, 101>>
    [] s = "seal_get_storage" -> <<115, 101, 97, 108, 95, 103, 101, 116, 95, 115, 116, 111, 114, 97, 103, 101>>
    [] s = "seal_transfer" -> <<115, 101, 97, 108, 95, 116, 114, 97, 110, 115, 102, 101, 114>>
    [] s = "seal_call" -> <<115, 101, 97, 108, 95, 99, 97, 108, 108>>
    [] s = "seal_instantiate" -> <<115, 101, 97, 108, 95, 105, 110, 115, 116, 97, 110, 116, 105, 97, 116, 101>>
    [] s = "seal_hash_sha2_256" -> <<115, 101, 97, 108, 95, 104, 97, 115, 104, 95, 115, 104, 97, 50, 95, 50, 53, 54>>
    [] s = "seal_hash_keccak_256" -> <<115, 101, 97, 108, 95, 104, 97, 115, 104, 95, 107, 101, 99, 99, 97, 107, 95, 50, 53, 54>>
    [] s = "seal_hash_blake2_256" -> <<115, 101, 97, 108, 95, 104, 97, 115, 104, 95, 98, 108, 97, 107, 101, 50, 95, 50, 53, 54>>
    [] s = "seal_hash_blake2_128" -> <<115, 101, 97, 108, 95, 104, 97, 115, 104, 95, 98, 108, 97, 107, 101, 50, 95, 49, 50, 56>>

serialize_string(s) == VarUint32(Len(Utf8(s))) \o Utf8(s)

serialize_list(items) == VarUint32(Len(items)) \o Flatten(items)

serialize_value_type(t) == IF t = "I32" THEN <<127>> ELSE <<126>>

serialize_instruction(i) ==
    CASE i.op = "Unreachable" -> <<0>>
      [] i.op = "Nop" -> <<1>>
      [] i.op = "If" -> <<4, i.arg>>
      [] i.op = "Else" -> <<5>>
      [] i.op = "End" -> <<11>>
      [] i.op = "Return" -> <<15>>
      [] i.op = "Call" -> <<16>> \o VarUint32(i.arg)
      [] i.op = "Drop" -> <<26>>
      [] i.op = "I32Const" -> <<65>> \o VarInt(i.arg)
      [] i.op = "I64Const" -> <<66>> \o VarInt(i.arg)
      [] i.op = "I32Eqz" -> <<69>>

serialize_instructions(code) ==
    Flatten([k \in 1..Len(code) |-> serialize_instruction(code[k])])


serialize_type(sig) ==
    <<96>> \o serialize_list([k \in 1..Len(sig.params) |->
                                 serialize_value_type(sig.params[k])])
           \o (IF sig.return_type = None THEN <<0>>
               ELSE <<1>> \o serialize_value_type(sig.return_type[1]))

serialize_import(entry) ==
    serialize_string(entry.module) \o serialize_string(entry.field)
        \o (IF entry.kind = "Function"
            THEN <<0>> \o VarUint32(entry.type_ref)
            ELSE <<2>> \o (IF entry.maximum = None
                           THEN <<0>> \o VarUint32(entry.initial)
                           ELSE <<1>> \o VarUint32(entry.initial)
                                      \o VarUint32(entry.maximum[1])))

serialize_export(entry) ==
    serialize_string(entry.field) \o <<0>> \o VarUint32(entry.index)

serialize_func_body(fbody) ==
    LET inner == serialize_list(fbody.locals) \o serialize_instructions(fbody.code)
    IN  VarUint32(Len(inner)) \o inner

serialize_data(segment) ==
    VarUint32(segment.index) \o serialize_instructions(segment.offset)
        \o VarUint32(Len(segment.value)) \o segment.value

\* A section is written only when it has entries: id, payload size, payload.
serialize_section(id, entries) ==
    IF entries = <<>> THEN <<>>
    ELSE LET payload == serialize_list(entries)
         IN  <<id>> \o VarUint32(Len(payload)) \o payload

to_bytes(module) ==
    <<0, 97, 115, 109, 1, 0, 0, 0>>
        \o serialize_section(1, [k \in 1..Len(module.types) |->
                                    serialize_type(module.types[k])])
        \o serialize_section(2, [k \in 1..Len(module.import) |->
                                    serialize_import(module.import[k])])
        \o serialize_section(3, [k \in 1..Len(module.functions) |->
                                    VarUint32(module.functions[k])])
        \o serialize_section(7, [k \in 1..Len(module.export) |->
                                    serialize_export(module.export[k])])
        \o serialize_section(10, [k \in 1..Len(module.code) |->
                                    serialize_func_body(module.code[k])])
        \o serialize_section(11, [k \in 1..Len(module.data) |->
                                    serialize_data(module.data[k])])

\* T::Hashing::hash: a collision-free digest of the bytes.
Hashing_hash(code) == [digest_of |-> code]

create_code(def) ==
    LET code == to_bytes(build_module(def))
    IN  [code |-> code, hash |-> Hashing_hash(code)]

(***************************************************************************)
(* Scenario parameters.  A scenario gives a ModuleDefinition and says how  *)
(* its call body is emitted: "none" leaves the definition's own call_body, *)
(* the other three apply the policy of that name.                          *)
(***************************************************************************)
Scenario(name, def, policy, repetitions, sequence, counted, operands) ==
    [scenario |-> name, def |-> def, policy |-> policy,
     repetitions |-> repetitions, sequence |-> sequence, counted |-> counted,
     operands |-> operands]

InstructionChoices == {I32Const(4), Call(0), End}
CountedChoices ==
    {Counter(0, 2), Counter(5, 0), Counter(1, 3), Regular(Call(0)), Regular(I32Const(4))}
ImportChoices ==
    {ImportedFunction("seal_input", <<"I32", "I32">>, None),
     ImportedFunction("seal_get_storage", <<"I32", "I32", "I32">>, Some("I32"))}
MemoryChoices == {None, Some(ImportedMemory(1, 1)), Some(ImportedMemory(1, 2))}
DataChoices == {DataSegment(0, <<7, 8>>), DataSegment(4, <<>>)}
DeployBodyChoices == {None, Some(body(<<I32Const(1), Drop, End>>))}
CallBodyChoices == {None, Some(body(<<Call(0), End>>))}

\* Module definitions written out field by field, call body included.
DefinitionScenarios ==
    {Scenario("definition",
              ModuleDefinition(segments, memory, imports, deploy, call),
              "none", 0, <<>>, <<>>, <<>>) :
        segments \in SeqsUpTo(DataChoices, MaxSegments),
        memory \in MemoryChoices,
        imports \in SeqsUpTo(ImportChoices, MaxImports),
        deploy \in DeployBodyChoices,
        call \in CallBodyChoices}

\* The default definition with a call body from one of the three policies.
PolicyScenarios ==
    {Scenario("body", ModuleDefinition_default, "body", 0, sequence, <<>>, <<>>) :
        sequence \in SeqsUpTo(InstructionChoices, MaxSeqLen)}
    \cup
    {Scenario("body_repeated", ModuleDefinition_default, "body_repeated",
              repetitions, sequence, <<>>, <<>>) :
        repetitions \in 0..MaxRepetitions,
        sequence \in SeqsUpTo(InstructionChoices, MaxSeqLen)}
    \cup
    {Scenario("body_counted", ModuleDefinition_default, "body_counted",
              repetitions, <<>>, counted, <<>>) :
        repetitions \in 0..MaxRepetitions,
        counted \in SeqsUpTo(CountedChoices, MaxSeqLen)}

(***************************************************************************)
(* The benchmark catalog.  A runtime T fixes the sizes of the encoded      *)
(* types: the test runtime run natively, and a node runtime on wasm32.     *)
(***************************************************************************)
Runtimes ==
    {[balance_len |-> 8, account_len |-> 8, hash_len |-> 32, usize_len |-> 8,
      subsistence_threshold |-> 17, max_value_size |-> 16384],
     [balance_len |-> 16, account_len |-> 32, hash_len |-> 32, usize_len |-> 4,
      subsistence_threshold |-> 17, max_value_size |-> 16384]}

\* Scaled down: 20 batches of 100 calls in the source.
API_BENCHMARK_BATCHES == 2
API_BENCHMARK_BATCH_SIZE == 2
\* Scaled down: the schedule's max_event_topics.
max_event_topics == 2

max_pages == 16
\* Scaled down: the schedule's max_code_size, in kilobytes and in bytes.
MaxCodeKb == 17
max_code_size == MaxCodeKb * 1024
max_subject_len == 32
u32_max_value_as_i32 == -1

ImportedMemory_max == ImportedMemory(max_pages, max_pages)

Bytes(len, fill) == [k \in 1..len |-> fill]

\* The little-endian bytes of x in a type `width` bytes wide; also the
\* SCALE encoding of a fixed-width integer.
RECURSIVE to_le_bytes(_, _)
to_le_bytes(x, width) ==
    IF width = 0 THEN <<>> ELSE <<x % 256>> \o to_le_bytes(x \div 256, width - 1)

\* The SCALE compact length prefix of a Vec.
compact_len(n) ==
    IF n < 64 THEN <<4 * n>> ELSE <<(4 * n + 1) % 256, (4 * n + 1) \div 256>>

RECURSIVE ByteSum(_, _, _)
ByteSum(bytes, lo, hi) ==
    IF lo > hi THEN 0
    ELSE IF lo = hi THEN bytes[lo]
    ELSE LET mid == (lo + hi) \div 2
         IN  ByteSum(bytes, lo, mid) + ByteSum(bytes, mid + 1, hi)

\* The bytes of a hash: hash_len bytes that depend on what was hashed.
hash_encode(h, T) == Bytes(T.hash_len, ByteSum(h.digest_of, 1, Len(h.digest_of)) % 256)
hash_of(n, T) == hash_encode(Hashing_hash(to_le_bytes(n, 4)), T)

\* account(name, index, 0).encode(), and an address as encoded.
account_encode(index, T) == Bytes(T.account_len, index % 256)

balance_encode(value, T) == to_le_bytes(value, T.balance_len)
\* BalanceOf::<T>::max_value().encode() and funding::<T>().encode()
balance_max_encode(T) == Bytes(T.balance_len, 255)
funding_encode(T) == Bytes(T.balance_len - 1, 255) \o <<127>>

Operand(slot, len, segment) == [slot |-> slot, len |-> len, segment |-> segment]

\* const EXPANSION of sized_code: six bytes when encoded.
EXPANSION == <<I32Const(0), If(BlockType_NoResult), Return, End>>

\* Mutant: every expansion that fits the target is emitted.
sized_code_without_spare(target_bytes) ==
    Scenario("sized_code", ModuleDefinition_default, "body_repeated",
             (IF target_bytes > 47 THEN target_bytes - 47 ELSE 0) \div 6,
             EXPANSION, <<>>, <<>>)

\* (target_bytes.saturating_sub(47) / 6).saturating_sub(1) expansions.
sized_code(target_bytes) ==
    Scenario("sized_code", ModuleDefinition_default, "body_repeated",
             IF (IF target_bytes > 47 THEN target_bytes - 47 ELSE 0) \div 6 > 1
             THEN ((IF target_bytes > 47 THEN target_bytes - 47 ELSE 0) \div 6) - 1
             ELSE 0,
             EXPANSION, <<>>, <<>>)

\* Mutant: the call-sites target function index 1.
getter_code_calling_own_function(getter_name, repeat) ==
    Scenario("getter_code",
        ModuleDefinition(
            <<DataSegment(0, to_le_bytes(max_pages * 64 * 1024 - 4, 4))>>,
            Some(ImportedMemory_max),
            <<ImportedFunction(getter_name, <<"I32", "I32">>, None)>>,
            None, None),
        "body_repeated", repeat,
        <<I32Const(4), I32Const(0), Call(1)>>, <<>>,
        <<Operand(2, 4, 1)>>)

getter_code(getter_name, repeat) ==
    Scenario("getter_code",
        ModuleDefinition(
            <<DataSegment(0, to_le_bytes(max_pages * 64 * 1024 - 4, 4))>>,
            Some(ImportedMemory_max),
            <<ImportedFunction(getter_name, <<"I32", "I32">>, None)>>,
            None, None),
        "body_repeated", repeat,
        <<I32Const(4), I32Const(0), Call(0)>>, <<>>,
        <<Operand(2, 4, 1)>>)

seal_weight_to_fee(r) ==
    Scenario("seal_weight_to_fee",
        ModuleDefinition(
            <<DataSegment(0, to_le_bytes(max_pages * 64 * 1024 - 4, 4))>>,
            Some(ImportedMemory_max),
            <<ImportedFunction("seal_weight_to_fee", <<"I64", "I32", "I32">>, None)>>,
            None, None),
        "body_repeated", r * API_BENCHMARK_BATCH_SIZE,
        <<I64Const(500000), I32Const(4), I32Const(0), Call(0)>>, <<>>,
        <<Operand(3, 4, 1)>>)

seal_input(r) ==
    Scenario("seal_input",
        ModuleDefinition(
            <<DataSegment(0, to_le_bytes(0, 4))>>,
            Some(ImportedMemory_max),
            <<ImportedFunction("seal_input", <<"I32", "I32">>, None)>>,
            None, None),
        "body_repeated", r,
        <<I32Const(4), I32Const(0), Call(0)>>, <<>>,
        <<Operand(2, 4, 1)>>)

seal_input_per_kb ==
    LET buffer_size == max_pages * 64 * 1024 - 4
    IN  Scenario("seal_input_per_kb",
            ModuleDefinition(
                <<DataSegment(0, to_le_bytes(buffer_size, 4))>>,
                Some(ImportedMemory_max),
                <<ImportedFunction("seal_input", <<"I32", "I32">>, None)>>,
                None, None),
            "body", 0,
            <<I32Const(4), I32Const(0), Call(0), End>>, <<>>,
            <<Operand(2, 4, 1)>>)

seal_terminate(r, T) ==
    LET beneficiary_bytes == account_encode(0, T)
        beneficiary_len == Len(beneficiary_bytes)
    IN  Scenario("seal_terminate",
            ModuleDefinition(
                <<DataSegment(0, beneficiary_bytes)>>,
                Some(ImportedMemory_max),
                <<ImportedFunction("seal_terminate", <<"I32", "I32">>, None)>>,
                None, None),
            "body_repeated", r,
            <<I32Const(0), I32Const(as_i32(beneficiary_len)), Call(0)>>, <<>>,
            <<Operand(1, beneficiary_len, 1)>>)

restore_to_params == <<"I32", "I32", "I32", "I32", "I32", "I32", "I32", "I32">>

seal_restore_to(r, T) ==
    LET dest == account_encode(1, T)
        dest_len == Len(dest)
        code_hash == hash_encode(create_code(ModuleDefinition_default).hash, T)
        code_hash_len == Len(code_hash)
        rent_allowance == balance_max_encode(T)
        rent_allowance_len == Len(rent_allowance)
        dest_offset == 0
        code_hash_offset == dest_offset + dest_len
        rent_allowance_offset == code_hash_offset + code_hash_len
    IN  Scenario("seal_restore_to",
            ModuleDefinition(
                <<DataSegment(dest_offset, dest),
                  DataSegment(code_hash_offset, code_hash),
                  DataSegment(rent_allowance_offset, rent_allowance)>>,
                Some(ImportedMemory_max),
                <<ImportedFunction("seal_restore_to", restore_to_params, None)>>,
                None, None),
            "body_repeated", r,
            <<I32Const(as_i32(dest_offset)), I32Const(as_i32(dest_len)),
              I32Const(as_i32(code_hash_offset)), I32Const(as_i32(code_hash_len)),
              I32Const(as_i32(rent_allowance_offset)), I32Const(as_i32(rent_allowance_len)),
              I32Const(0), I32Const(0), Call(0)>>, <<>>,
            <<Operand(1, dest_len, 1), Operand(3, code_hash_len, 2),
              Operand(5, rent_allowance_len, 3)>>)

\* create_storage(n, size): the keys are the hashes of 0..n-1.
create_storage_keys(stor_num, T) == [i \in 1..stor_num |-> hash_of(i - 1, T)]

seal_restore_to_per_delta(d, T) ==
    LET delta == create_storage_keys(d * API_BENCHMARK_BATCH_SIZE, T)
        dest == account_encode(1, T)
        dest_len == Len(dest)
        code_hash == hash_encode(create_code(ModuleDefinition_default).hash, T)
        code_hash_len == Len(code_hash)
        rent_allowance == balance_max_encode(T)
        rent_allowance_len == Len(rent_allowance)
        delta_keys == Flatten(delta)
        dest_offset == 0
        code_hash_offset == dest_offset + dest_len
        rent_allowance_offset == code_hash_offset + code_hash_len
        delta_keys_offset == rent_allowance_offset + rent_allowance_len
    IN  Scenario("seal_restore_to_per_delta",
            ModuleDefinition(
                <<DataSegment(dest_offset, dest),
                  DataSegment(code_hash_offset, code_hash),
                  DataSegment(rent_allowance_offset, rent_allowance),
                  DataSegment(delta_keys_offset, delta_keys)>>,
                Some(ImportedMemory_max),
                <<ImportedFunction("seal_restore_to", restore_to_params, None)>>,
                None, None),
            "body", 0,
            <<I32Const(as_i32(dest_offset)), I32Const(as_i32(dest_len)),
              I32Const(as_i32(code_hash_offset)), I32Const(as_i32(code_hash_len)),
              I32Const(as_i32(rent_allowance_offset)), I32Const(as_i32(rent_allowance_len)),
              I32Const(as_i32(delta_keys_offset)), I32Const(as_i32(Len(delta))),
              Call(0), End>>, <<>>,
            <<Operand(1, dest_len, 1), Operand(3, code_hash_len, 2),
              Operand(5, rent_allowance_len, 3),
              Operand(7, Len(delta) * T.hash_len, 4)>>)

seal_random(r) ==
    LET subject_len == max_subject_len
    IN  Scenario("seal_random",
            ModuleDefinition(
                <<DataSegment(0, to_le_bytes(max_pages * 64 * 1024 - subject_len - 4, 4))>>,
                Some(ImportedMemory_max),
                <<ImportedFunction("seal_random", <<"I32", "I32", "I32", "I32">>, None)>>,
                None, None),
            "body_repeated", r * API_BENCHMARK_BATCH_SIZE,
            <<I32Const(4), I32Const(as_i32(subject_len)),
              I32Const(as_i32(subject_len + 4)), I32Const(0), Call(0)>>, <<>>,
            <<Operand(4, 4, 1)>>)

seal_deposit_event_per_topic_and_kb(t, n, T) ==
    LET topics_of(b) ==
            compact_len(t) \o Flatten([i \in 1..t |-> hash_of(b * t + i - 1, T)])
        batches == [b \in 1..API_BENCHMARK_BATCH_SIZE |-> topics_of(b - 1)]
        topics_len == IF batches = <<>> THEN 0 ELSE Len(batches[1])
        topics == Flatten(batches)
    IN  Scenario("seal_deposit_event_per_topic_and_kb",
            ModuleDefinition(
                <<DataSegment(0, topics)>>,
                Some(ImportedMemory_max),
                <<ImportedFunction("seal_deposit_event",
                                   <<"I32", "I32", "I32", "I32">>, None)>>,
                None, None),
            "body_counted", API_BENCHMARK_BATCH_SIZE, <<>>,
            <<Counter(0, topics_len), Regular(I32Const(as_i32(topics_len))),
              Regular(I32Const(0)), Regular(I32Const(as_i32(n * 1024))),
              Regular(Call(0))>>,
            <<Operand(1, topics_len, 1)>>)

seal_set_rent_allowance(r, T) ==
    LET allowance == funding_encode(T)
        allowance_len == Len(allowance)
    IN  Scenario("seal_set_rent_allowance",
            ModuleDefinition(
                <<DataSegment(0, allowance)>>,
                Some(ImportedMemory(1, 1)),
                <<ImportedFunction("seal_set_rent_allowance", <<"I32", "I32">>, None)>>,
                None, None),
            "body_repeated", r * API_BENCHMARK_BATCH_SIZE,
            <<I32Const(0), I32Const(as_i32(allowance_len)), Call(0)>>, <<>>,
            <<Operand(1, allowance_len, 1)>>)

seal_set_storage(r, T) ==
    LET keys == Flatten(create_storage_keys(r * API_BENCHMARK_BATCH_SIZE, T))
        key_len == T.hash_len
    IN  Scenario("seal_set_storage",
            ModuleDefinition(
                <<DataSegment(0, keys)>>,
                Some(ImportedMemory_max),
                <<ImportedFunction("seal_set_storage", <<"I32", "I32", "I32">>, None)>>,
                None, None),
            "body_counted", r * API_BENCHMARK_BATCH_SIZE, <<>>,
            <<Counter(0, key_len), Regular(I32Const(0)), Regular(I32Const(0)),
              Regular(Call(0))>>,
            <<Operand(1, key_len, 1)>>)

seal_set_storage_per_kb(n, T) ==
    LET key == hash_of(1, T)
        key_len == Len(key)
    IN  Scenario("seal_set_storage_per_kb",
            ModuleDefinition(
                <<DataSegment(0, key)>>,
                Some(ImportedMemory_max),
                <<ImportedFunction("seal_set_storage", <<"I32", "I32", "I32">>, None)>>,
                None, None),
            "body_repeated", API_BENCHMARK_BATCH_SIZE,
            <<I32Const(0), I32Const(0), I32Const(as_i32(n * 1024)), Call(0)>>, <<>>,
            <<Operand(1, key_len, 1)>>)

seal_clear_storage(r, T) ==
    LET key_bytes == Flatten(create_storage_keys(r * API_BENCHMARK_BATCH_SIZE, T))
        key_len == T.hash_len
    IN  Scenario("seal_clear_storage",
            ModuleDefinition(
                <<DataSegment(0, key_bytes)>>,
                Some(ImportedMemory_max),
                <<ImportedFunction("seal_clear_storage", <<"I32">>, None)>>,
                None, None),
            "body_counted", r * API_BENCHMARK_BATCH_SIZE, <<>>,
            <<Counter(0, key_len), Regular(Call(0))>>,
            <<Operand(1, key_len, 1)>>)

\* The output length cell at key_bytes_len is backed by no data segment.
seal_get_storage(r, T) ==
    LET key_len == T.hash_len
        key_bytes == Flatten(create_storage_keys(r * API_BENCHMARK_BATCH_SIZE, T))
        key_bytes_len == Len(key_bytes)
    IN  Scenario("seal_get_storage",
            ModuleDefinition(
                <<DataSegment(0, key_bytes)>>,
                Some(ImportedMemory_max),
                <<ImportedFunction("seal_get_storage", <<"I32", "I32", "I32">>,
                                   Some("I32"))>>,
                None, None),
            "body_counted", r * API_BENCHMARK_BATCH_SIZE, <<>>,
            <<Counter(0, key_len), Regular(I32Const(as_i32(key_bytes_len + 4))),
              Regular(I32Const(as_i32(key_bytes_len))), Regular(Call(0)),
              Regular(Drop)>>,
            <<Operand(1, key_len, 1)>>)

seal_get_storage_per_kb(n, T) ==
    LET key == hash_of(1, T)
        key_len == Len(key)
    IN  Scenario("seal_get_storage_per_kb",
            ModuleDefinition(
                <<DataSegment(0, key),
                  DataSegment(key_len, to_le_bytes(T.max_value_size, 4))>>,
                Some(ImportedMemory_max),
                <<ImportedFunction("seal_get_storage", <<"I32", "I32", "I32">>,
                                   Some("I32"))>>,
                None, None),
            "body_repeated", API_BENCHMARK_BATCH_SIZE,
            <<I32Const(0), I32Const(as_i32(key_len + 4)), I32Const(as_i32(key_len)),
              Call(0), Drop>>, <<>>,
            <<Operand(1, key_len, 1), Operand(3, 4, 2)>>)

\* The encoded ids of `count` accounts (receivers, callees), end to end.
accounts_encode(count, T) == [i \in 1..count |-> account_encode(i, T)]

seal_transfer(r, T) ==
    LET accounts == accounts_encode(r * API_BENCHMARK_BATCH_SIZE, T)
        account_len == IF accounts = <<>> THEN 0 ELSE Len(accounts[1])
        account_bytes == Flatten(accounts)
        value_bytes == balance_encode(T.subsistence_threshold, T)
        value_len == Len(value_bytes)
    IN  Scenario("seal_transfer",
            ModuleDefinition(
                <<DataSegment(0, value_bytes), DataSegment(value_len, account_bytes)>>,
                Some(ImportedMemory_max),
                <<ImportedFunction("seal_transfer", <<"I32", "I32", "I32", "I32">>,
                                   Some("I32"))>>,
                None, None),
            "body_counted", r * API_BENCHMARK_BATCH_SIZE, <<>>,
            <<Counter(value_len, account_len), Regular(I32Const(as_i32(account_len))),
              Regular(I32Const(0)), Regular(I32Const(as_i32(value_len))),
              Regular(Call(0)), Regular(Drop)>>,
            <<Operand(1, account_len, 2), Operand(3, value_len, 1)>>)

call_params == <<"I32", "I32", "I64", "I32", "I32", "I32", "I32", "I32", "I32">>

seal_call(r, T) ==
    LET callees == accounts_encode(r * API_BENCHMARK_BATCH_SIZE, T)
        callee_len == IF callees = <<>> THEN 0 ELSE Len(callees[1])
        callee_bytes == Flatten(callees)
        value_bytes == balance_encode(0, T)
        value_len == Len(value_bytes)
    IN  Scenario("seal_call",
            ModuleDefinition(
                <<DataSegment(0, value_bytes), DataSegment(value_len, callee_bytes)>>,
                Some(ImportedMemory_max),
                <<ImportedFunction("seal_call", call_params, Some("I32"))>>,
                None, None),
            "body_counted", r * API_BENCHMARK_BATCH_SIZE, <<>>,
            <<Counter(value_len, callee_len), Regular(I32Const(as_i32(callee_len))),
              Regular(I64Const(0)), Regular(I32Const(0)),
              Regular(I32Const(as_i32(value_len))), Regular(I32Const(0)),
              Regular(I32Const(0)), Regular(I32Const(u32_max_value_as_i32)),
              Regular(I32Const(0)), Regular(Call(0)), Regular(Drop)>>,
            <<Operand(1, callee_len, 2), Operand(4, value_len, 1)>>)

seal_call_per_transfer_input_output_kb(t, i, o, T) ==
    LET callees == accounts_encode(API_BENCHMARK_BATCH_SIZE, T)
        callee_len == IF callees = <<>> THEN 0 ELSE Len(callees[1])
        callee_bytes == Flatten(callees)
        callees_len == Len(callee_bytes)
        value_bytes == balance_encode(t, T)
        value_len == Len(value_bytes)
    IN  Scenario("seal_call_per_transfer_input_output_kb",
            ModuleDefinition(
                <<DataSegment(0, value_bytes), DataSegment(value_len, callee_bytes),
                  DataSegment(value_len + callees_len, to_le_bytes(o * 1024, 4))>>,
                Some(ImportedMemory_max),
                <<ImportedFunction("seal_call", call_params, Some("I32"))>>,
                None, None),
            "body_counted", API_BENCHMARK_BATCH_SIZE, <<>>,
            <<Counter(value_len, callee_len), Regular(I32Const(as_i32(callee_len))),
              Regular(I64Const(0)), Regular(I32Const(0)),
              Regular(I32Const(as_i32(value_len))), Regular(I32Const(0)),
              Regular(I32Const(as_i32(i * 1024))),
              Regular(I32Const(as_i32(value_len + callees_len + 4))),
              Regular(I32Const(as_i32(value_len + callees_len))),
              Regular(Call(0)), Regular(Drop)>>,
            <<Operand(1, callee_len, 2), Operand(4, value_len, 1),
              Operand(9, 4, 3)>>)

instantiate_params ==
    <<"I32", "I32", "I64", "I32", "I32", "I32", "I32", "I32", "I32", "I32", "I32">>

\* Mutant: the address length cell placed where the hashes start.
seal_instantiate_addr_len_offset_on_hashes(hashes_offset, hashes_len) == hashes_offset

\* Where seal_instantiate places the address length cell: after the hashes.
seal_instantiate_addr_len_offset(hashes_offset, hashes_len) == hashes_offset + hashes_len

\* The code seal_instantiate deploys for index i, and the encoded hashes.
instantiate_callee(i) ==
    create_code([ModuleDefinition_default EXCEPT
                     !.call_body = Some(body(<<I32Const(as_i32(i)), Drop, End>>))])

seal_instantiate(r, T) ==
    LET hashes == [i \in 1..(r * API_BENCHMARK_BATCH_SIZE) |->
                      hash_encode(instantiate_callee(i - 1).hash, T)]
        hash_len == IF hashes = <<>> THEN 0 ELSE Len(hashes[1])
        hashes_bytes == Flatten(hashes)
        hashes_len == Len(hashes_bytes)
        value_bytes == balance_encode(T.subsistence_threshold, T)
        value_len == Len(value_bytes)
        addr_len == T.account_len
        value_offset == 0
        hashes_offset == value_offset + value_len
        addr_len_offset == seal_instantiate_addr_len_offset(hashes_offset, hashes_len)
        addr_offset == addr_len_offset + addr_len
    IN  Scenario("seal_instantiate",
            ModuleDefinition(
                <<DataSegment(value_offset, value_bytes),
                  DataSegment(hashes_offset, hashes_bytes),
                  DataSegment(addr_len_offset, to_le_bytes(addr_len, T.usize_len))>>,
                Some(ImportedMemory_max),
                <<ImportedFunction("seal_instantiate", instantiate_params, Some("I32"))>>,
                None, None),
            "body_counted", r * API_BENCHMARK_BATCH_SIZE, <<>>,
            <<Counter(hashes_offset, hash_len), Regular(I32Const(as_i32(hash_len))),
              Regular(I64Const(0)), Regular(I32Const(as_i32(value_offset))),
              Regular(I32Const(as_i32(value_len))), Regular(I32Const(0)),
              Regular(I32Const(0)), Regular(I32Const(as_i32(addr_offset))),
              Regular(I32Const(as_i32(addr_len_offset))),
              Regular(I32Const(u32_max_value_as_i32)), Regular(I32Const(0)),
              Regular(Call(0)), Regular(Drop)>>,
            <<Operand(1, hash_len, 2), Operand(4, value_len, 1),
              Operand(9, 4, 3)>>)

Max(a, b) == IF a >= b THEN a ELSE b

seal_instantiate_per_input_output_kb(i, o, T) ==
    LET callee_code ==
            create_code(ModuleDefinition(<<>>, Some(ImportedMemory_max),
                <<ImportedFunction("seal_return", <<"I32", "I32", "I32">>, None)>>,
                Some(body(<<I32Const(0), I32Const(0), I32Const(as_i32(o * 1024)),
                            Call(0), End>>)),
                None))
        hash_bytes == hash_encode(callee_code.hash, T)
        hash_len == Len(hash_bytes)
        inputs == [x \in 1..API_BENCHMARK_BATCH_SIZE |-> to_le_bytes(x - 1, 4)]
        input_len == IF inputs = <<>> THEN 0 ELSE Len(inputs[1])
        input_bytes == Flatten(inputs)
        inputs_len == Len(input_bytes)
        value_bytes == balance_encode(T.subsistence_threshold, T)
        value_len == Len(value_bytes)
        addr_len == T.account_len
        input_offset == 0
        value_offset == inputs_len
        hash_offset == value_offset + value_len
        addr_len_offset == hash_offset + hash_len
        output_len_offset == addr_len_offset + 4
        output_offset == output_len_offset + 4
    IN  Scenario("seal_instantiate_per_input_output_kb",
            ModuleDefinition(
                <<DataSegment(input_offset, input_bytes),
                  DataSegment(value_offset, value_bytes),
                  DataSegment(hash_offset, hash_bytes),
                  DataSegment(addr_len_offset, to_le_bytes(addr_len, 4)),
                  DataSegment(output_len_offset, to_le_bytes(o * 1024, 4))>>,
                Some(ImportedMemory_max),
                <<ImportedFunction("seal_instantiate", instantiate_params, Some("I32"))>>,
                None, None),
            "body_counted", API_BENCHMARK_BATCH_SIZE, <<>>,
            <<Regular(I32Const(as_i32(hash_offset))), Regular(I32Const(as_i32(hash_len))),
              Regular(I64Const(0)), Regular(I32Const(as_i32(value_offset))),
              Regular(I32Const(as_i32(value_len))), Counter(input_offset, input_len),
              Regular(I32Const(as_i32(Max(i * 1024, input_len)))),
              Regular(I32Const(as_i32(addr_len_offset + addr_len))),
              Regular(I32Const(as_i32(addr_len_offset))),
              Regular(I32Const(as_i32(output_offset))),
              Regular(I32Const(as_i32(output_len_offset))),
              Regular(Call(0)), Regular(I32Eqz), Regular(If(BlockType_NoResult)),
              Regular(Nop), Regular(Else), Regular(Unreachable), Regular(End)>>,
            <<Operand(1, hash_len, 3), Operand(4, value_len, 2),
              Operand(6, input_len, 1), Operand(9, 4, 4), Operand(11, 4, 5)>>)

\* The values a size parameter `0 .. max` is tried at.
Sizes(max) == {0, 1, max}

CatalogScenarios ==
    {getter_code(name, r * API_BENCHMARK_BATCH_SIZE) :
        name \in {"seal_caller", "seal_now"}, r \in 0..API_BENCHMARK_BATCHES}
    \cup {seal_weight_to_fee(r) : r \in 0..API_BENCHMARK_BATCHES}
    \cup {seal_input(r) : r \in 0..1}
    \cup {seal_input_per_kb}
    \cup {seal_random(r) : r \in 0..API_BENCHMARK_BATCHES}
    \cup UNION {
        {seal_terminate(r, T) : r \in 0..1}
        \cup {seal_restore_to(r, T) : r \in 0..1}
        \cup {seal_restore_to_per_delta(d, T) : d \in 0..API_BENCHMARK_BATCHES}
        \cup {seal_deposit_event_per_topic_and_kb(t, n, T) :
                 t \in 0..max_event_topics, n \in Sizes(T.max_value_size \div 1024)}
        \cup {seal_set_rent_allowance(r, T) : r \in 0..API_BENCHMARK_BATCHES}
        \cup {seal_set_storage(r, T) : r \in 0..API_BENCHMARK_BATCHES}
        \cup {seal_set_storage_per_kb(n, T) : n \in Sizes(T.max_value_size \div 1024)}
        \cup {seal_clear_storage(r, T) : r \in 0..API_BENCHMARK_BATCHES}
        \cup {seal_get_storage(r, T) : r \in 0..API_BENCHMARK_BATCHES}
        \cup {seal_get_storage_per_kb(n, T) : n \in Sizes(T.max_value_size \div 1024)}
        \cup {seal_transfer(r, T) : r \in 0..API_BENCHMARK_BATCHES}
        \cup {seal_call(r, T) : r \in 0..API_BENCHMARK_BATCHES}
        \cup {seal_call_per_transfer_input_output_kb(t, i, o, T) :
                 t \in 0..1, i \in Sizes(max_pages * 64),
                 o \in Sizes((max_pages - 1) * 64)}
        \cup {seal_instantiate(r, T) : r \in 0..API_BENCHMARK_BATCHES}
        \cup {seal_instantiate_per_input_output_kb(i, o, T) :
                 i \in Sizes((max_pages - 1) * 64), o \in Sizes((max_pages - 1) * 64)}
        : T \in Runtimes}

Scenarios == DefinitionScenarios \cup PolicyScenarios \cup CatalogScenarios

(***************************************************************************)
(* The benchmark driver.  The pallet it drives (the currency, the code     *)
(* registry, instantiate / call / claim_surcharge and the rent module)     *)
(* lives outside benchmarking.rs; it is modelled as far as the driver and  *)
(* the verify blocks observe it.                                           *)
(***************************************************************************)
\* Result<T, &'static str>
Ok(value) == [ok |-> TRUE, value |-> value, err |-> ""]
Err(reason) == [ok |-> FALSE, value |-> <<>>, err |-> reason]

\* A storage map: a function whose domain is the set of keys present.
Get(map, key, default) == IF key \in DOMAIN map THEN map[key] ELSE default
Put(map, key, value) ==
    [k \in DOMAIN map \cup {key} |-> IF k = key THEN value ELSE map[k]]
Remove(map, key) == [k \in DOMAIN map \ {key} |-> map[k]]
EmptyMap == [k \in {} |-> 0]

\* BalanceOf::<T>::max_value(), the balance type scaled to 30 bits.
Balance_max_value == 1073741823
Weight_max_value == "Weight::max_value()"

saturating_sub(a, b) == IF a > b THEN a - b ELSE 0
saturating_mul(a, b) ==
    IF b # 0 /\ a > Balance_max_value \div b THEN Balance_max_value ELSE a * b
checked_div(a, b) == IF b = 0 THEN None ELSE Some(a \div b)
checked_mul(a, b) ==
    IF b # 0 /\ a > Balance_max_value \div b THEN None ELSE Some(a * b)
Min(a, b) == IF a <= b THEN a ELSE b

\* The constants of the runtime the benchmarks are run for: the pallet's
\* test runtime, a runtime whose subsistence threshold exceeds the deposit
\* offset, and a runtime with the deposit offset switched off.
RuntimeConstants(existential_deposit, tombstone_deposit, rent_deposit_offset,
                 storage_size_offset, rent_byte_fee, signed_claim_handicap,
                 surcharge_reward) ==
    [existential_deposit |-> existential_deposit,
     tombstone_deposit |-> tombstone_deposit,
     rent_deposit_offset |-> rent_deposit_offset,
     storage_size_offset |-> storage_size_offset,
     rent_byte_fee |-> rent_byte_fee,
     signed_claim_handicap |-> signed_claim_handicap,
     surcharge_reward |-> surcharge_reward,
     subsistence_threshold |-> existential_deposit + tombstone_deposit,
     max_value_size |-> 100,
     balance_len |-> 8, account_len |-> 8, hash_len |-> 32, usize_len |-> 8]

DriverRuntimes ==
    {RuntimeConstants(1, 16, 10000, 8, 4, 2, 150),
     RuntimeConstants(5, 10, 8, 2, 1, 0, 3),
     RuntimeConstants(1, 16, 0, 8, 4, 2, 150)}

\* frame_benchmarking::account(name, index, 0)
account(name, index) == <<"account", name, index>>

\* T::DetermineContractAddress::contract_address_for: injective in its inputs.
contract_address_for(code_hash, data, origin) == <<"contract", code_hash, data, origin>>

\* T::Currency
minimum_balance(T) == T.existential_deposit
Currency_free_balance(s, who) == Get(s.free_balance, who, 0)
\* Nothing is ever reserved here: the total balance is the free balance.
Currency_total_balance(s, who) == Currency_free_balance(s, who)
make_free_balance_be(s, who, value) ==
    [s EXCEPT !.free_balance = Put(@, who, value)]

\* Config::<T>::subsistence_threshold_uncached()
subsistence_threshold_uncached(T) == minimum_balance(T) + T.tombstone_deposit

funding == Balance_max_value \div 2

\* Mutant: the whole funding is endowed.
max_endowment_whole_funding(T) == funding

max_endowment(T) == saturating_sub(funding, minimum_balance(T))

\* The pallet's storage as one value, as the driver's functions thread it.
PalletState(balances, codes, contracts, number) ==
    [free_balance |-> balances, code_storage |-> codes,
     contract_info_of |-> contracts, block_number |-> number]
Genesis == PalletState(EmptyMap, {}, EmptyMap, 0)

\* The outcome of a driver function: the storage it leaves and its result.
Outcome(s, result) == [state |-> s, result |-> result]

\* ContractInfo::Alive(AliveContractInfo) and ContractInfo::Tombstone.
AliveContractInfo(code_hash, number) ==
    [kind |-> "Alive", code_hash |-> code_hash, storage_size |-> 0,
     empty_pair_count |-> 0, deduct_block |-> number,
     rent_allowance |-> Balance_max_value, last_write |-> None,
     storage |-> EmptyMap]
TombstoneContractInfo(info) ==
    [kind |-> "Tombstone", code_hash |-> info.code_hash, storage_size |-> 0,
     empty_pair_count |-> 0, deduct_block |-> 0, rent_allowance |-> 0,
     last_write |-> None, storage |-> info.storage]
NoContractInfo ==
    [kind |-> "None", code_hash |-> <<>>, storage_size |-> 0,
     empty_pair_count |-> 0, deduct_block |-> 0, rent_allowance |-> 0,
     last_write |-> None, storage |-> EmptyMap]
ContractInfoOf_get(s, addr) == Get(s.contract_info_of, addr, NoContractInfo)

\* Mutant: the block number is left at its default.
init_block_number_default(s) == [s EXCEPT !.block_number = 0]

\* System::<T>::set_block_number(1.into())
init_block_number(s) == [s EXCEPT !.block_number = 1]
set_block_number(s, number) == [s EXCEPT !.block_number = number]

(***************************************************************************)
(* The pallet's operations the driver calls.                               *)
(***************************************************************************)
\* Mutant: a code hash that is already registered is refused.
put_code_raw_refusing_known(s, code) ==
    IF Hashing_hash(code) \in s.code_storage
    THEN Outcome(s, Err("Code already registered."))
    ELSE Outcome([s EXCEPT !.code_storage = @ \cup {Hashing_hash(code)}], Ok(<<>>))

\* Contracts::<T>::put_code_raw: the code is registered under its hash.
put_code_raw(s, code) ==
    Outcome([s EXCEPT !.code_storage = @ \cup {Hashing_hash(code)}], Ok(<<>>))

\* Contracts::<T>::put_code: code above the schedule's max_code_size is refused.
Contracts_put_code(s, code) ==
    IF Len(code) > max_code_size
    THEN Outcome(s, Err("CodeTooLarge"))
    ELSE put_code_raw(s, code)

\* A transfer out of a plain account, which must stay alive.
Currency_transfer(s, T, from, to, value) ==
    IF Currency_free_balance(s, from) < value
           \/ Currency_free_balance(s, from) - value < minimum_balance(T)
    THEN Outcome(s, Err("TransferFailed"))
    ELSE LET debited == make_free_balance_be(s, from, Currency_free_balance(s, from) - value)
         IN  Outcome(make_free_balance_be(debited, to,
                         Currency_free_balance(debited, to) + value), Ok(<<>>))

\* Mutant: the new contract's balance is not held against the threshold.
Contracts_instantiate_unfunded(s, T, origin, endowment, gas_limit, code_hash, data) ==
    LET dest == contract_address_for(code_hash, data, origin)
        paid == Currency_transfer(s, T, origin, dest, endowment)
    IN  IF code_hash \notin s.code_storage \/ ~paid.result.ok
        THEN Outcome(s, Err("CodeNotFound"))
        ELSE Outcome([paid.state EXCEPT !.contract_info_of =
                          Put(@, dest, AliveContractInfo(code_hash, s.block_number))],
                     Ok(<<>>))

\* Contracts::<T>::instantiate: all or nothing.
Contracts_instantiate(s, T, origin, endowment, gas_limit, code_hash, data) ==
    LET dest == contract_address_for(code_hash, data, origin)
        paid == Currency_transfer(s, T, origin, dest, endowment)
    IN  IF code_hash \notin s.code_storage
        THEN Outcome(s, Err("CodeNotFound"))
        ELSE IF ContractInfoOf_get(s, dest).kind # "None"
        THEN Outcome(s, Err("DuplicateContract"))
        ELSE IF ~paid.result.ok
        THEN Outcome(s, paid.result)
        ELSE IF Currency_free_balance(paid.state, dest) < subsistence_threshold_uncached(T)
        THEN Outcome(s, Err("NewContractNotFunded"))
        ELSE Outcome([paid.state EXCEPT !.contract_info_of =
                          Put(@, dest, AliveContractInfo(code_hash, s.block_number))],
                     Ok(<<>>))

(***************************************************************************)
(* The driver's functions.                                                 *)
(***************************************************************************)
dummy_code == create_code(ModuleDefinition_default)

\* Mutant: a tombstone passes for an alive contract.
get_alive_or_tombstone(s, addr) ==
    IF ContractInfoOf_get(s, addr).kind # "None"
    THEN Ok(ContractInfoOf_get(s, addr))
    ELSE Err("Expected contract to be alive at this point.")

get_alive(s, addr) ==
    IF ContractInfoOf_get(s, addr).kind = "Alive"
    THEN Ok(ContractInfoOf_get(s, addr))
    ELSE Err("Expected contract to be alive at this point.")

ensure_alive(s, addr) ==
    IF get_alive(s, addr).ok THEN Ok(<<>>) ELSE get_alive(s, addr)

ensure_tombstone(s, addr) ==
    IF ContractInfoOf_get(s, addr).kind = "Tombstone"
    THEN Ok(<<>>)
    ELSE Err("Expected contract to be a tombstone at this point.")

\* struct Contract
Contract(caller, account_id, addr, endowment, code_hash) ==
    [caller |-> caller, account_id |-> account_id, addr |-> addr,
     endowment |-> endowment, code_hash |-> code_hash]

\* Mutant: every policy is sized like Endow::CollectRent.
Endow_rent_bearing_only(endowment, T) ==
    LET storage_size ==
            unwrap_or_else(checked_div(subsistence_threshold_uncached(T),
                                       T.rent_deposit_offset), 0)
    IN  [storage_size |-> storage_size,
         endowment |-> saturating_sub(
                           saturating_mul(T.rent_deposit_offset,
                                          storage_size + T.storage_size_offset), 1)]

\* The (storage_size, endowment) pair of an endowment policy.
Endow(endowment, T) ==
    IF endowment = "CollectRent"
    THEN LET storage_size ==
                 unwrap_or_else(checked_div(subsistence_threshold_uncached(T),
                                            T.rent_deposit_offset), 0)
         IN  [storage_size |-> storage_size,
              endowment |-> saturating_sub(
                                saturating_mul(T.rent_deposit_offset,
                                               storage_size + T.storage_size_offset), 1)]
    ELSE [storage_size |-> 0, endowment |-> max_endowment(T)]

instantiate_contract_from_account(s, T, caller, module, data, endowment) ==
    LET sized == Endow(endowment, T)
        funded == make_free_balance_be(s, caller, funding)
        addr == contract_address_for(module.hash, data, caller)
        numbered == init_block_number(funded)
        put == put_code_raw(numbered, module.code)
        instantiated == Contracts_instantiate(put.state, T, caller, sized.endowment,
                                              Weight_max_value, module.hash, data)
        alive == get_alive(instantiated.state, addr)
        contract == [alive.value EXCEPT !.storage_size = sized.storage_size]
    IN  IF ~put.result.ok THEN Outcome(put.state, put.result)
        ELSE IF ~instantiated.result.ok
        THEN Outcome(instantiated.state, instantiated.result)
        ELSE IF ~alive.ok THEN Outcome(instantiated.state, alive)
        ELSE Outcome([instantiated.state EXCEPT !.contract_info_of =
                          Put(@, addr, contract)],
                     Ok(Contract(caller, addr, addr, sized.endowment, module.hash)))

instantiate_contract_from_index(s, T, index, module, data, endowment) ==
    instantiate_contract_from_account(s, T, account("instantiator", index), module,
                                      data, endowment)

instantiate_contract(s, T, module, data, endowment) ==
    instantiate_contract_from_index(s, T, 0, module, data, endowment)

\* Mutant: the user is credited the maximum balance.
create_funded_user_max_balance(s, string, n) ==
    Outcome(make_free_balance_be(s, account(string, n), Balance_max_value),
            Ok(account(string, n)))

create_funded_user(s, string, n) ==
    Outcome(make_free_balance_be(s, account(string, n), funding), Ok(account(string, n)))

(***************************************************************************)
(* Rent (crate::rent) and contract storage (crate::storage).               *)
(***************************************************************************)
compute_fee_per_block(T, free, contract) ==
    LET free_storage == unwrap_or_else(checked_div(free, T.rent_deposit_offset), 0)
        effective_storage_size ==
            saturating_sub(contract.storage_size + T.storage_size_offset
                               + contract.empty_pair_count, free_storage)
    IN  unwrap_or_else(checked_mul(effective_storage_size, T.rent_byte_fee),
                       Balance_max_value)

rent_budget(T, total, free, contract) ==
    IF total < subsistence_threshold_uncached(T)
    THEN None
    ELSE Some(Min(contract.rent_allowance,
                  saturating_sub(free, subsistence_threshold_uncached(T))))

Verdict(kind, amount) == [kind |-> kind, amount |-> amount]

consider_case(s, T, who, current_block_number, handicap, contract) ==
    LET blocks_passed ==
            saturating_sub(saturating_sub(current_block_number, handicap),
                           contract.deduct_block)
        balance == Currency_free_balance(s, who)
        fee_per_block == compute_fee_per_block(T, balance, contract)
        budget == rent_budget(T, balance, balance, contract)
        dues == unwrap_or_else(checked_mul(fee_per_block, blocks_passed),
                               Balance_max_value)
    IN  IF blocks_passed = 0 THEN Verdict("Exempt", 0)
        ELSE IF fee_per_block = 0 THEN Verdict("Exempt", 0)
        ELSE IF budget = None THEN Verdict("Kill", 0)
        ELSE IF budget[1] < dues THEN Verdict("Evict", Min(dues, budget[1]))
        ELSE Verdict("Charge", Min(dues, budget[1]))

\* The storage the verdict leaves; the contract info is read back from it.
enact_verdict(s, who, contract, current_block_number, verdict) ==
    LET withdrawn == make_free_balance_be(s, who,
                         Currency_free_balance(s, who) - verdict.amount)
    IN  CASE verdict.kind = "Exempt" -> s
          [] verdict.kind = "Kill" ->
                 [s EXCEPT !.contract_info_of = Remove(@, who)]
          [] verdict.kind = "Evict" ->
                 [withdrawn EXCEPT !.contract_info_of =
                      Put(@, who, TombstoneContractInfo(contract))]
          [] verdict.kind = "Charge" ->
                 [withdrawn EXCEPT !.contract_info_of =
                      Put(@, who, [contract EXCEPT
                                       !.rent_allowance = @ - verdict.amount,
                                       !.deduct_block = current_block_number])]

collect_rent(s, T, who) ==
    LET contract == ContractInfoOf_get(s, who)
    IN  IF contract.kind # "Alive" THEN s
        ELSE enact_verdict(s, who, contract, s.block_number,
                 consider_case(s, T, who, s.block_number, 0, contract))

\* Whether the poke evicted (or killed) the contract, and the storage left.
snitch_contract_should_be_evicted(s, T, who, handicap) ==
    LET contract == ContractInfoOf_get(s, who)
        verdict == consider_case(s, T, who, s.block_number, handicap, contract)
    IN  IF contract.kind # "Alive" THEN Outcome(s, FALSE)
        ELSE IF verdict.kind \in {"Kill", "Evict"}
        THEN Outcome(enact_verdict(s, who, contract, s.block_number, verdict), TRUE)
        ELSE Outcome(s, FALSE)

RentProjection(kind, at) == [kind |-> kind, at |-> at]

compute_rent_projection(s, T, who) ==
    LET collected_state == collect_rent(s, T, who)
        contract == ContractInfoOf_get(collected_state, who)
        balance == Currency_free_balance(collected_state, who)
        fee_per_block == compute_fee_per_block(T, balance, contract)
        budget == rent_budget(T, balance, balance, contract)
    IN  IF ContractInfoOf_get(s, who).kind # "Alive"
        THEN Outcome(s, Err("ContractAbsentError"))
        ELSE IF contract.kind # "Alive"
        THEN Outcome(collected_state, Err("ContractAbsentError"))
        ELSE IF fee_per_block = 0
        THEN Outcome(collected_state, Ok(RentProjection("NoEviction", 0)))
        ELSE Outcome(collected_state,
                     Ok(RentProjection("EvictionAt",
                            collected_state.block_number + (budget[1] \div fee_per_block))))

\* crate::storage::write_contract_storage with Some(value), on an alive contract.
write_contract_storage(s, who, key, value) ==
    LET info == ContractInfoOf_get(s, who)
        known == key \in DOMAIN info.storage
        old_len == IF known THEN Len(info.storage[key]) ELSE 0
        old_empty == IF known /\ old_len = 0 THEN 1 ELSE 0
        new_empty == IF Len(value) = 0 THEN 1 ELSE 0
    IN  IF info.kind # "Alive" THEN Outcome(s, Err("ContractAbsentError"))
        ELSE Outcome([s EXCEPT !.contract_info_of =
                          Put(@, who, [info EXCEPT
                              !.storage = Put(@, key, value),
                              !.last_write = Some(s.block_number),
                              !.storage_size = @ - old_len + Len(value),
                              !.empty_pair_count = @ - old_empty + new_empty])],
                     Ok(<<>>))

\* The items one after the other, as the loop of store_items writes them.
RECURSIVE write_items(_, _, _)
write_items(s, who, items) ==
    IF items = <<>> THEN Outcome(s, Ok(<<>>))
    ELSE LET written == write_contract_storage(s, who, Head(items)[1], Head(items)[2])
         IN  IF ~written.result.ok
             THEN Outcome(written.state, Err("Failed to write storage to restoration dest"))
             ELSE write_items(written.state, who, Tail(items))

\* Mutant: the last item is left out.
store_items_but_last(s, who, items) ==
    IF ~get_alive(s, who).ok
    THEN Outcome(s, get_alive(s, who))
    ELSE write_items(s, who, SubSeq(items, 1, Len(items) - 1))

store_items(s, who, items) ==
    IF ~get_alive(s, who).ok
    THEN Outcome(s, get_alive(s, who))
    ELSE write_items(s, who, items)

\* The storage key of item i: the hash of i.
StorageKey(i) == Hashing_hash(to_le_bytes(i, 4))

\* Mutant: every item under the key of item 0.
create_storage_one_key(stor_num, stor_size) ==
    [i \in 1..stor_num |-> <<StorageKey(0), Bytes(stor_size, 42)>>]

create_storage(stor_num, stor_size) ==
    [i \in 1..stor_num |-> <<StorageKey(i - 1), Bytes(stor_size, 42)>>]

eviction_at(s, T, addr) ==
    LET projection == compute_rent_projection(s, T, addr)
    IN  IF ~projection.result.ok
        THEN Outcome(projection.state, Err("Invalid acc for rent"))
        ELSE IF projection.result.value.kind = "EvictionAt"
        THEN Outcome(projection.state, Ok(projection.result.value.at))
        ELSE Outcome(projection.state, Err("Account does not pay rent."))

\* Mutant: the block the contract is projected to be evicted at, no later.
eviction_block_without_margin(at, T) == at

\* The block create_tombstone and claim_surcharge advance to.
eviction_block(at, T) == at + T.signed_claim_handicap + 5

\* struct Tombstone
Tombstone(contract, storage) == [contract |-> contract, storage |-> storage]

\* create_tombstone, statement by statement: each `?` returns the Err it meets.
tombstone_ensured(contract, collected_state, storage_items) ==
    IF ~ensure_tombstone(collected_state, contract.account_id).ok
    THEN Outcome(collected_state, ensure_tombstone(collected_state, contract.account_id))
    ELSE Outcome(collected_state, Ok(Tombstone(contract, storage_items)))

tombstone_evicted(contract, at, T, storage_items) ==
    IF ~at.result.ok THEN at
    ELSE tombstone_ensured(contract,
             collect_rent(set_block_number(at.state, eviction_block(at.result.value, T)),
                          T, contract.account_id),
             storage_items)

tombstone_stored(contract, stored, T, storage_items) ==
    IF ~stored.result.ok THEN stored
    ELSE tombstone_evicted(contract, eviction_at(stored.state, T, contract.account_id),
                           T, storage_items)

tombstone_instantiated(instantiated, T, storage_items) ==
    IF ~instantiated.result.ok THEN instantiated
    ELSE tombstone_stored(instantiated.result.value,
             store_items(instantiated.state, instantiated.result.value.account_id,
                         storage_items),
             T, storage_items)

create_tombstone(s, T, stor_num, stor_size) ==
    tombstone_instantiated(instantiate_contract(s, T, dummy_code, <<>>, "CollectRent"),
                           T, create_storage(stor_num, stor_size))

(***************************************************************************)
(* The measured extrinsics.  A contract's execution is reduced to the      *)
(* host calls of its call body that change the pallet's storage.           *)
(***************************************************************************)
HostCall(op, dest, code_hash, value, delta) ==
    [op |-> op, dest |-> dest, code_hash |-> code_hash, value |-> value,
     delta |-> delta]

RECURSIVE RemoveAll(_, _)
RemoveAll(map, keys) ==
    IF keys = <<>> THEN map ELSE RemoveAll(Remove(map, Head(keys)), Tail(keys))

RECURSIVE MapBytes(_)
MapBytes(map) ==
    IF DOMAIN map = {} THEN 0
    ELSE LET key == CHOOSE k \in DOMAIN map : TRUE
         IN  Len(map[key]) + MapBytes(Remove(map, key))

\* rent::restore_to: the tombstone at dest comes back to life with the
\* storage of the origin, which must match what the tombstone stands for.
restore_to(s, origin, dest, code_hash, rent_allowance, delta) ==
    LET origin_info == ContractInfoOf_get(s, origin)
        dest_info == ContractInfoOf_get(s, dest)
        kept == RemoveAll(origin_info.storage, delta)
        moved == make_free_balance_be(
                     make_free_balance_be(s, dest,
                         Currency_free_balance(s, dest) + Currency_free_balance(s, origin)),
                     origin, 0)
    IN  IF origin_info.kind # "Alive" \/ origin_info.last_write = Some(s.block_number)
        THEN Outcome(s, Err("InvalidContractOrigin"))
        ELSE IF dest_info.kind # "Tombstone"
        THEN Outcome(s, Err("InvalidDestinationContract"))
        ELSE IF dest_info.storage # kept \/ dest_info.code_hash # code_hash
        THEN Outcome(s, Err("InvalidTombstone"))
        ELSE Outcome([moved EXCEPT !.contract_info_of =
                         Put(Remove(@, origin), dest,
                             [AliveContractInfo(code_hash, s.block_number) EXCEPT
                                  !.storage = kept,
                                  !.storage_size = MapBytes(kept),
                                  !.empty_pair_count = origin_info.empty_pair_count,
                                  !.rent_allowance = rent_allowance,
                                  !.last_write = Some(s.block_number)])],
                     Ok(<<>>))

\* seal_terminate: the contract is removed and all it owns goes to the
\* beneficiary.
terminate(s, self, to) ==
    IF ContractInfoOf_get(s, self).kind # "Alive"
    THEN Outcome(s, Err("ContractTrapped"))
    ELSE Outcome([make_free_balance_be(
                      make_free_balance_be(s, to,
                          Currency_total_balance(s, to) + Currency_total_balance(s, self)),
                      self, 0)
                  EXCEPT !.contract_info_of = Remove(@, self)],
                 Ok(<<>>))

\* One host call made by the contract `self`.
host_call(s, T, self, call) ==
    CASE call.op = "seal_instantiate" ->
             Contracts_instantiate(s, T, self, call.value, Weight_max_value,
                                   call.code_hash, <<>>)
      [] call.op = "seal_call" ->
             LET collected_state == collect_rent(s, T, call.dest)
             IN  IF ContractInfoOf_get(collected_state, call.dest).kind = "Alive"
                 THEN Outcome(collected_state, Ok(<<>>))
                 ELSE Outcome(s, Err("NotCallable"))
      [] call.op = "seal_restore_to" ->
             restore_to(s, self, call.dest, call.code_hash, Balance_max_value, call.delta)
      [] call.op = "seal_terminate" -> terminate(s, self, call.dest)

\* The host calls in order; the first that fails, the restoration of another
\* contract, or the contract's termination ends the execution.
RECURSIVE execute(_, _, _, _)
execute(s, T, self, calls) ==
    IF calls = <<>> THEN Outcome(s, Ok(<<>>))
    ELSE LET made == host_call(s, T, self, Head(calls))
         IN  IF ~made.result.ok \/ Head(calls).op \in {"seal_restore_to", "seal_terminate"}
             THEN made
             ELSE execute(made.state, T, self, Tail(calls))

\* Contracts::<T>::call: all or nothing.
Contracts_call(s, T, origin, dest, value, gas_limit, data, calls) ==
    LET collected_state == collect_rent(s, T, dest)
        paid == Currency_transfer(collected_state, T, origin, dest, value)
        executed == execute(paid.state, T, dest, calls)
    IN  IF ContractInfoOf_get(collected_state, dest).kind # "Alive"
        THEN Outcome(s, Err("NotCallable"))
        ELSE IF ~paid.result.ok THEN Outcome(s, paid.result)
        ELSE IF ~executed.result.ok THEN Outcome(s, executed.result)
        ELSE executed

\* Contracts::<T>::claim_surcharge by a signed origin.
Contracts_claim_surcharge(s, T, origin, dest) ==
    LET poked == snitch_contract_should_be_evicted(s, T, dest, T.signed_claim_handicap)
    IN  IF poked.result
        THEN Outcome(make_free_balance_be(poked.state, origin,
                         Currency_free_balance(poked.state, origin) + T.surcharge_reward),
                     Ok(<<>>))
        ELSE Outcome(s, Ok(<<>>))

(***************************************************************************)
(* The benchmarks: a setup block, one measured extrinsic, a verify block.  *)
(***************************************************************************)
RECURSIVE counted_yields(_, _, _)
counted_yields(instrs, done, total) ==
    IF done >= total THEN <<>>
    ELSE LET mapped == counted_map(instrs, (done % Len(instrs)) + 1)
         IN  <<mapped.yield>> \o counted_yields(mapped.instructions, done + 1, total)

body_counted(repetitions, instrs) ==
    body_counted_collect(
        counted_yields(body_counted_argument(instrs), 0, Len(instrs) * repetitions))

\* The WasmModule of a catalog entry: its definition with the call body emitted.
catalog_code(entry) ==
    create_code([entry.def EXCEPT !.call_body =
        CASE entry.policy = "body" -> Some(body(entry.sequence))
          [] entry.policy = "body_repeated" ->
                 Some(body_repeated(entry.repetitions, entry.sequence))
          [] entry.policy = "body_counted" ->
                 Some(body_counted(entry.repetitions, entry.counted))
          [] OTHER -> entry.def.call_body])

Bench(name, r) == [name |-> name, r |-> r]

DriverBenchmarks ==
    {Bench("instantiate", n) : n \in 0..1}
    \cup {Bench("call", 0), Bench("claim_surcharge", 0)}
    \cup {Bench(name, r) : name \in {"seal_caller", "seal_call", "seal_instantiate",
                                     "seal_restore_to_per_delta"},
                           r \in 0..API_BENCHMARK_BATCHES}
    \cup {Bench("seal_restore_to", r) : r \in 0..1}
    \cup {Bench("seal_terminate", r) : r \in 0..1}
    \cup {Bench("put_code", n) : n \in 0..(max_code_size \div 1024)}

NoModule == [code |-> <<>>, hash |-> <<>>]

\* One statement of a setup or verify block.
Stmt(op, who, module, endowment, items, mode, number) ==
    [op |-> op, who |-> who, module |-> module, endowment |-> endowment,
     items |-> items, mode |-> mode, number |-> number]

S_create_funded_user(who) == Stmt("create_funded_user", who, NoModule, "", <<>>, "", 0)
S_put_code_raw(module) == Stmt("put_code_raw", <<>>, module, "", <<>>, "", 0)
S_instantiate(caller, module, endowment) ==
    Stmt("instantiate_contract", caller, module, endowment, <<>>, "", 0)
S_create_tombstone(stor_num, stor_size) ==
    Stmt("create_tombstone", <<>>, NoModule, "", <<>>, "", <<stor_num, stor_size>>)
S_store_items(who, items, mode) == Stmt("store_items", who, NoModule, "", items, mode, 0)
S_set_block_number(who, mode) == Stmt("set_block_number", who, NoModule, "", <<>>, mode, 0)
S_ensure_alive(who) == Stmt("ensure_alive", who, NoModule, "", <<>>, "", 0)
S_ensure_tombstone(who) == Stmt("ensure_tombstone", who, NoModule, "", <<>>, "", 0)
S_ensure_absent(who) == Stmt("ensure_absent", who, NoModule, "", <<>>, "", 0)
S_read_balance(who) == Stmt("read_balance", who, NoModule, "", <<>>, "", 0)
S_assert_balance(who, mode, number) ==
    Stmt("assert_balance", who, NoModule, "", <<>>, mode, number)

\* instantiate_contract(module, vec![], policy): the instantiator and the address.
instantiator == account("instantiator", 0)
instance_of(caller, module) == contract_address_for(module.hash, <<>>, caller)

\* The module the benchmark's contract runs.
bench_module(b, T) ==
    CASE b.name = "seal_caller" ->
             catalog_code(getter_code("seal_caller", b.r * API_BENCHMARK_BATCH_SIZE))
      [] b.name = "seal_call" -> catalog_code(seal_call(b.r, T))
      [] b.name = "seal_instantiate" -> catalog_code(seal_instantiate(b.r, T))
      [] b.name = "seal_restore_to" -> catalog_code(seal_restore_to(b.r, T))
      [] b.name = "seal_terminate" -> catalog_code(seal_terminate(b.r, T))
      [] b.name = "put_code" -> catalog_code(sized_code(b.r * 1024))
      [] b.name = "seal_restore_to_per_delta" ->
             catalog_code(seal_restore_to_per_delta(b.r, T))
      [] OTHER -> dummy_code

\* The benchmark with the module its contract runs, built once per scenario.
WithModule(b, T) == [name |-> b.name, r |-> b.r, module |-> bench_module(b, T)]

\* The account that instantiates the benchmark's contract, and its address.
bench_caller(b) ==
    IF b.name \in {"seal_restore_to", "seal_restore_to_per_delta"}
    THEN account("origin", 0)
    ELSE IF b.name \in {"instantiate", "put_code"} THEN account("caller", 0)
    ELSE instantiator
instantiate_data(b) == IF b.name = "instantiate" THEN Bytes(b.r * 1024, 42) ELSE <<>>
bench_instance(b) ==
    contract_address_for(b.module.hash, instantiate_data(b), bench_caller(b))

\* account("beneficiary", 0, 0) of seal_terminate.
beneficiary == account("beneficiary", 0)

\* The address create_tombstone's contract lives at.
tombstone_address == instance_of(instantiator, dummy_code)

\* The number of items of the tombstone seal_restore_to restores.
seal_restore_to_stor_num == 10

\* The addresses seal_instantiate expects its contracts at.
instantiate_addresses(b) ==
    [i \in 1..(b.r * API_BENCHMARK_BATCH_SIZE) |->
        contract_address_for(instantiate_callee(i - 1).hash, <<>>, bench_instance(b))]

call_value(T) == minimum_balance(T) * 100

setup_block(b, T) ==
    CASE b.name = "put_code" -> <<S_create_funded_user(account("caller", 0))>>
      [] b.name = "instantiate" ->
             <<S_create_funded_user(account("caller", 0)), S_put_code_raw(dummy_code)>>
      [] b.name = "call" ->
             <<S_instantiate(instantiator, dummy_code, "CollectRent"),
               S_set_block_number(bench_instance(b), "before_eviction"),
               S_read_balance(bench_instance(b))>>
      [] b.name = "claim_surcharge" ->
             <<S_instantiate(instantiator, dummy_code, "CollectRent"),
               S_ensure_alive(bench_instance(b)),
               S_set_block_number(bench_instance(b), "after_eviction")>>
      [] b.name = "seal_caller" ->
             <<S_instantiate(instantiator, b.module, "Max")>>
      [] b.name = "seal_terminate" ->
             <<S_instantiate(instantiator, b.module, "Max"),
               S_assert_balance(beneficiary, "total eq", 0),
               S_assert_balance(bench_instance(b), "total eq", max_endowment(T))>>
      [] b.name = "seal_call" ->
             [i \in 1..(b.r * API_BENCHMARK_BATCH_SIZE) |->
                 S_instantiate(account("instantiator", i), dummy_code, "Max")]
             \o <<S_instantiate(instantiator, b.module, "Max")>>
      [] b.name = "seal_instantiate" ->
             [i \in 1..(b.r * API_BENCHMARK_BATCH_SIZE) |->
                 S_put_code_raw(instantiate_callee(i - 1))]
             \o <<S_instantiate(instantiator, b.module, "Max")>>
             \o [i \in 1..(b.r * API_BENCHMARK_BATCH_SIZE) |->
                    S_ensure_absent(instantiate_addresses(b)[i])]
      [] b.name = "seal_restore_to" ->
             <<S_create_tombstone(seal_restore_to_stor_num, T.max_value_size),
               S_instantiate(account("origin", 0), b.module, "Max"),
               S_store_items(bench_instance(b), <<>>, "tombstone.storage"),
               S_set_block_number(<<>>, "next")>>
      [] b.name = "seal_restore_to_per_delta" ->
             <<S_create_tombstone(0, 0),
               S_instantiate(account("origin", 0), b.module, "Max"),
               S_store_items(bench_instance(b), <<>>, "tombstone.storage"),
               S_store_items(bench_instance(b),
                             create_storage(b.r * API_BENCHMARK_BATCH_SIZE,
                                            T.max_value_size), "delta"),
               S_set_block_number(<<>>, "next")>>

verify_block(b, T) ==
    CASE b.name = "instantiate" ->
             <<S_assert_balance(account("caller", 0), "eq",
                                funding - subsistence_threshold_uncached(T)),
               S_assert_balance(bench_instance(b), "eq",
                                subsistence_threshold_uncached(T)),
               S_ensure_alive(bench_instance(b))>>
      [] b.name = "call" ->
             <<S_assert_balance(instantiator, "eq",
                   funding - Endow("CollectRent", T).endowment - call_value(T)),
               S_assert_balance(bench_instance(b), "below before +", call_value(T)),
               S_ensure_alive(bench_instance(b))>>
      [] b.name = "claim_surcharge" ->
             <<S_ensure_tombstone(bench_instance(b)),
               S_assert_balance(instantiator, "eq",
                   funding - Endow("CollectRent", T).endowment + T.surcharge_reward)>>
      [] b.name = "seal_terminate" ->
             IF b.r > 0
             THEN <<S_assert_balance(bench_instance(b), "total eq", 0),
                    S_assert_balance(beneficiary, "total eq", max_endowment(T))>>
             ELSE <<>>
      [] b.name = "seal_instantiate" ->
             [i \in 1..(b.r * API_BENCHMARK_BATCH_SIZE) |->
                 S_ensure_alive(instantiate_addresses(b)[i])]
      [] b.name = "seal_restore_to" ->
             IF b.r > 0 THEN <<S_ensure_alive(tombstone_address)>> ELSE <<>>
      [] b.name = "seal_restore_to_per_delta" -> <<S_ensure_alive(tombstone_address)>>
      [] OTHER -> <<>>

\* Mutant: seal_terminate's body makes the host call whatever r is.
host_calls_terminating_always(b, T) ==
    CASE b.name = "seal_terminate" ->
             [i \in 1..1 |-> HostCall("seal_terminate", beneficiary, <<>>, 0, <<>>)]
      [] b.name = "seal_call" ->
             [i \in 1..(b.r * API_BENCHMARK_BATCH_SIZE) |->
                 HostCall("seal_call", instance_of(account("instantiator", i), dummy_code),
                          <<>>, 0, <<>>)]
      [] b.name = "seal_instantiate" ->
             [i \in 1..(b.r * API_BENCHMARK_BATCH_SIZE) |->
                 HostCall("seal_instantiate", <<>>, instantiate_callee(i - 1).hash,
                          subsistence_threshold_uncached(T), <<>>)]
      [] b.name = "seal_restore_to" ->
             [i \in 1..b.r |->
                 HostCall("seal_restore_to", tombstone_address, dummy_code.hash, 0, <<>>)]
      [] b.name = "seal_restore_to_per_delta" ->
             <<HostCall("seal_restore_to", tombstone_address, dummy_code.hash, 0,
                        [i \in 1..(b.r * API_BENCHMARK_BATCH_SIZE) |-> StorageKey(i - 1)])>>
      [] OTHER -> <<>>

\* The host calls of the benchmark contract's call body that change storage.
host_calls(b, T) ==
    CASE b.name = "seal_terminate" ->
             [i \in 1..b.r |-> HostCall("seal_terminate", beneficiary, <<>>, 0, <<>>)]
      [] b.name = "seal_call" ->
             [i \in 1..(b.r * API_BENCHMARK_BATCH_SIZE) |->
                 HostCall("seal_call", instance_of(account("instantiator", i), dummy_code),
                          <<>>, 0, <<>>)]
      [] b.name = "seal_instantiate" ->
             [i \in 1..(b.r * API_BENCHMARK_BATCH_SIZE) |->
                 HostCall("seal_instantiate", <<>>, instantiate_callee(i - 1).hash,
                          subsistence_threshold_uncached(T), <<>>)]
      [] b.name = "seal_restore_to" ->
             [i \in 1..b.r |->
                 HostCall("seal_restore_to", tombstone_address, dummy_code.hash, 0, <<>>)]
      [] b.name = "seal_restore_to_per_delta" ->
             <<HostCall("seal_restore_to", tombstone_address, dummy_code.hash, 0,
                        [i \in 1..(b.r * API_BENCHMARK_BATCH_SIZE) |-> StorageKey(i - 1)])>>
      [] OTHER -> <<>>

\* The measured extrinsic and its arguments.
Extrinsic(name, origin, dest, value, gas_limit, code_hash, data) ==
    [name |-> name, origin |-> origin, dest |-> dest, value |-> value,
     gas_limit |-> gas_limit, code_hash |-> code_hash, data |-> data]

\* Mutant: the measured call is given a gas limit of its own.
measured_with_gas_budget(b, T) ==
    Extrinsic("call", bench_caller(b), bench_instance(b), 0, "1000000", <<>>, <<>>)

\* Mutant: the surcharge is claimed by an account other than the instantiator.
measured_claimed_by_stranger(b, T) ==
    CASE b.name = "instantiate" ->
             Extrinsic("instantiate", account("caller", 0), <<>>,
                       subsistence_threshold_uncached(T), Weight_max_value,
                       dummy_code.hash, instantiate_data(b))
      [] b.name = "call" ->
             Extrinsic("call", instantiator, bench_instance(b), call_value(T),
                       Weight_max_value, <<>>, Bytes(1024, 42))
      [] b.name = "claim_surcharge" ->
             Extrinsic("claim_surcharge", account("stranger", 0), bench_instance(b), 0,
                       "", <<>>, <<>>)
      [] b.name = "put_code" ->
             Extrinsic("put_code", account("caller", 0), <<>>, 0, "", <<>>, b.module.code)
      [] OTHER ->
             Extrinsic("call", bench_caller(b), bench_instance(b), 0,
                       Weight_max_value, <<>>, <<>>)

measured(b, T) ==
    CASE b.name = "instantiate" ->
             Extrinsic("instantiate", account("caller", 0), <<>>,
                       subsistence_threshold_uncached(T), Weight_max_value,
                       dummy_code.hash, instantiate_data(b))
      [] b.name = "call" ->
             Extrinsic("call", instantiator, bench_instance(b), call_value(T),
                       Weight_max_value, <<>>, Bytes(1024, 42))
      [] b.name = "claim_surcharge" ->
             Extrinsic("claim_surcharge", instantiator, bench_instance(b), 0,
                       "", <<>>, <<>>)
      [] b.name = "put_code" ->
             Extrinsic("put_code", account("caller", 0), <<>>, 0, "", <<>>, b.module.code)
      [] OTHER ->
             Extrinsic("call", bench_caller(b), bench_instance(b), 0,
                       Weight_max_value, <<>>, <<>>)

\* The scenario of a benchmark, built once from its parameters: the
\* statements of its setup block, its measured extrinsic with the host calls
\* the contract then makes, and the statements of its verify block.
Benchmark(b, T) ==
    [name |-> b.name, r |-> b.r, module |-> b.module,
     setup |-> setup_block(b, T), extrinsic |-> measured(b, T),
     host_calls |-> host_calls(b, T), verify |-> verify_block(b, T)]

(***************************************************************************)
(* The driver's state machine: the statements of the setup block one by    *)
(* one, the measured extrinsic, the statements of the verify block.  The   *)
(* first statement that returns Err (a `?`) or panics ends the scenario.   *)
(***************************************************************************)
DriverIdle ==
    /\ bench = Bench("", 0)
    /\ runtime = <<>>
    /\ phase = "idle"
    /\ stmt = 0
    /\ free_balance = EmptyMap
    /\ code_storage = {}
    /\ contract_info_of = EmptyMap
    /\ block_number = 0
    /\ fixtures = <<>>
    /\ outcome = None
    /\ dispatched = <<>>

BuilderIdle ==
    /\ params = <<>>
    /\ run = 0
    /\ pc = "idle"
    /\ instructions = <<>>
    /\ collected = <<>>
    /\ call_body = None
    /\ built = <<>>

Fixtures(contracts, tombstones, before) ==
    [contracts |-> contracts, tombstones |-> tombstones, before |-> before]

DriverInit ==
    /\ BuilderIdle
    /\ \E b \in DriverBenchmarks, T \in DriverRuntimes :
           bench = Benchmark(WithModule(b, T), T) /\ runtime = T
    /\ phase = "setup"
    /\ stmt = 1
    /\ free_balance = Genesis.free_balance
    /\ code_storage = Genesis.code_storage
    /\ contract_info_of = Genesis.contract_info_of
    /\ block_number = Genesis.block_number
    /\ fixtures = Fixtures(<<>>, <<>>, 0)
    /\ outcome = None
    /\ dispatched = <<>>

\* The pallet's storage in the current state, and the storage an action leaves.
Storage == PalletState(free_balance, code_storage, contract_info_of, block_number)
Store(s) ==
    /\ free_balance' = s.free_balance
    /\ code_storage' = s.code_storage
    /\ contract_info_of' = s.contract_info_of
    /\ block_number' = s.block_number

\* The statement the scenario is at.
CurrentBlock ==
    IF phase = "setup" THEN bench.setup
    ELSE IF phase = "verify" THEN bench.verify
    ELSE <<>>
At(op) ==
    /\ phase \in {"setup", "verify"}
    /\ stmt <= Len(CurrentBlock)
    /\ CurrentBlock[stmt].op = op
Current == CurrentBlock[stmt]

\* Mutant: a statement's Err is dropped and the scenario goes on.
Proceed_ignoring_err(out) ==
    /\ Store(out.state)
    /\ stmt' = stmt + 1
    /\ UNCHANGED <<phase, outcome>>
    /\ UNCHANGED <<bench, runtime, dispatched, builder_vars>>

\* `?`: Ok moves on to the next statement, Err ends the scenario with it.
Proceed(out) ==
    /\ Store(out.state)
    /\ IF out.result.ok
       THEN stmt' = stmt + 1 /\ UNCHANGED <<phase, outcome>>
       ELSE phase' = "done" /\ outcome' = Some(out.result) /\ UNCHANGED stmt
    /\ UNCHANGED <<bench, runtime, dispatched, builder_vars>>

CreateFundedUser ==
    /\ At("create_funded_user")
    /\ Proceed(create_funded_user(Storage, Current.who[2], Current.who[3]))
    /\ UNCHANGED fixtures

PutCodeRaw ==
    /\ At("put_code_raw")
    /\ Proceed(put_code_raw(Storage, Current.module.code))
    /\ UNCHANGED fixtures

InstantiateContract ==
    /\ At("instantiate_contract")
    /\ LET out == instantiate_contract_from_account(Storage, runtime, Current.who,
                      Current.module, <<>>, Current.endowment)
       IN  /\ Proceed(out)
           /\ fixtures' = IF out.result.ok
                          THEN [fixtures EXCEPT !.contracts = Append(@, out.result.value)]
                          ELSE fixtures

CreateTombstone ==
    /\ At("create_tombstone")
    /\ LET out == create_tombstone(Storage, runtime, Current.number[1], Current.number[2])
       IN  /\ Proceed(out)
           /\ fixtures' = IF out.result.ok
                          THEN [fixtures EXCEPT !.tombstones = Append(@, out.result.value)]
                          ELSE fixtures

StoreItems ==
    /\ At("store_items")
    /\ Proceed(store_items(Storage, Current.who,
                   IF Current.mode = "tombstone.storage"
                   THEN fixtures.tombstones[Len(fixtures.tombstones)].storage
                   ELSE Current.items))
    /\ UNCHANGED fixtures

\* Mutant: the block height is left where it is before the call benchmark's call.
block_relative_to_current(at, mode, T) ==
    IF ~at.result.ok THEN at
    ELSE IF mode = "after_eviction"
    THEN Outcome(set_block_number(at.state, eviction_block(at.result.value, T)), Ok(<<>>))
    ELSE Outcome(at.state, Ok(<<>>))

\* The block a set_block_number statement computes, `?` and arithmetic included.
block_relative_to(at, mode, T) ==
    IF ~at.result.ok THEN at
    ELSE IF mode = "after_eviction"
    THEN Outcome(set_block_number(at.state, eviction_block(at.result.value, T)), Ok(<<>>))
    ELSE IF at.result.value < 5
    THEN Outcome(at.state, Err("attempt to subtract with overflow"))
    ELSE Outcome(set_block_number(at.state, at.result.value - 5), Ok(<<>>))

\* Mutant: block_number() + 1 leaves the block number as it is.
SetBlockNumber_staying ==
    /\ At("set_block_number")
    /\ Proceed(IF Current.mode = "next"
               THEN Outcome(Storage, Ok(<<>>))
               ELSE block_relative_to(eviction_at(Storage, runtime, Current.who),
                                      Current.mode, runtime))
    /\ UNCHANGED fixtures

SetBlockNumber ==
    /\ At("set_block_number")
    /\ Proceed(IF Current.mode = "next"
               THEN Outcome(set_block_number(Storage, block_number + 1), Ok(<<>>))
               ELSE block_relative_to(eviction_at(Storage, runtime, Current.who),
                                      Current.mode, runtime))
    /\ UNCHANGED fixtures

EnsureAlive ==
    /\ At("ensure_alive")
    /\ Proceed(Outcome(Storage, ensure_alive(Storage, Current.who)))
    /\ UNCHANGED fixtures

EnsureTombstone ==
    /\ At("ensure_tombstone")
    /\ Proceed(Outcome(Storage, ensure_tombstone(Storage, Current.who)))
    /\ UNCHANGED fixtures

\* seal_instantiate: no contract may exist yet at the addresses to be created.
EnsureAbsent ==
    /\ At("ensure_absent")
    /\ Proceed(Outcome(Storage,
                   IF ContractInfoOf_get(Storage, Current.who).kind # "None"
                   THEN Err("Expected that contract does not exist at this point.")
                   ELSE Ok(<<>>)))
    /\ UNCHANGED fixtures

\* let before = T::Currency::free_balance(&instance.account_id);
ReadBalance ==
    /\ At("read_balance")
    /\ Proceed(Outcome(Storage, Ok(<<>>)))
    /\ fixtures' = [fixtures EXCEPT !.before = Currency_free_balance(Storage, Current.who)]

\* assert_eq! / assert! on a free balance: a failed assertion is a panic.
AssertBalance ==
    /\ At("assert_balance")
    /\ Proceed(Outcome(Storage,
                   IF \/ /\ Current.mode = "eq"
                         /\ Currency_free_balance(Storage, Current.who) = Current.number
                      \/ /\ Current.mode = "total eq"
                         /\ Currency_total_balance(Storage, Current.who) = Current.number
                      \/ /\ Current.mode = "below before +"
                         /\ Currency_free_balance(Storage, Current.who)
                                < fixtures.before + Current.number
                   THEN Ok(<<>>)
                   ELSE Err("assertion failed")))
    /\ UNCHANGED fixtures

\* What the pallet does with an extrinsic.
dispatch(s, T, extrinsic, calls) ==
    CASE extrinsic.name = "instantiate" ->
             Contracts_instantiate(s, T, extrinsic.origin, extrinsic.value,
                                   extrinsic.gas_limit, extrinsic.code_hash,
                                   extrinsic.data)
      [] extrinsic.name = "call" ->
             Contracts_call(s, T, extrinsic.origin, extrinsic.dest, extrinsic.value,
                            extrinsic.gas_limit, extrinsic.data, calls)
      [] extrinsic.name = "claim_surcharge" ->
             Contracts_claim_surcharge(s, T, extrinsic.origin, extrinsic.dest)
      [] extrinsic.name = "put_code" -> Contracts_put_code(s, extrinsic.data)

\* The benchmarking system runs the measured extrinsic at block 1 when the
\* setup left the block number at its default of 0.
benchmarking_block(s) == IF s.block_number = 0 THEN set_block_number(s, 1) ELSE s

Dispatched(extrinsic, result) == [extrinsic |-> extrinsic, result |-> result]

\* The measured extrinsic, dispatched when the setup block has run through.
Dispatch ==
    /\ phase = "setup"
    /\ stmt = Len(bench.setup) + 1
    /\ LET out == dispatch(benchmarking_block(Storage), runtime, bench.extrinsic,
                            bench.host_calls)
       IN  /\ Store(out.state)
           /\ dispatched' = Append(dispatched, Dispatched(bench.extrinsic, out.result))
           /\ IF out.result.ok
              THEN phase' = "verify" /\ stmt' = 1 /\ UNCHANGED outcome
              ELSE phase' = "done" /\ outcome' = Some(out.result) /\ UNCHANGED stmt
    /\ UNCHANGED <<bench, runtime, fixtures, builder_vars>>

\* The verify block has run through: the benchmark returns Ok(()).
Finish ==
    /\ phase = "verify"
    /\ stmt = Len(bench.verify) + 1
    /\ phase' = "done"
    /\ outcome' = Some(Ok(<<>>))
    /\ UNCHANGED <<bench, runtime, stmt, free_balance, code_storage, contract_info_of,
                   block_number, fixtures, dispatched, builder_vars>>

DriverNext ==
    \/ CreateFundedUser
    \/ PutCodeRaw
    \/ InstantiateContract
    \/ CreateTombstone
    \/ StoreItems
    \/ SetBlockNumber
    \/ EnsureAlive
    \/ EnsureTombstone
    \/ EnsureAbsent
    \/ ReadBalance
    \/ AssertBalance
    \/ Dispatch
    \/ Finish

DriverSpec == DriverInit /\ [][DriverNext]_vars


(***************************************************************************)
(* The state machine.                                                      *)
(***************************************************************************)
Init ==
    /\ params \in Scenarios
    /\ run = 1
    /\ pc = "setup"
    /\ instructions = <<>>
    /\ collected = <<>>
    /\ call_body = None
    /\ built = <<>>
    /\ DriverIdle

\* `.. Default::default()` or an explicit call_body field: no policy runs.
KeepCallBody ==
    /\ pc = "setup"
    /\ params.policy = "none"
    /\ call_body' = params.def.call_body
    /\ pc' = "emitted"
    /\ UNCHANGED <<params, run, instructions, collected, built>>
    /\ UNCHANGED driver_vars

Body ==
    /\ pc = "setup"
    /\ params.policy = "body"
    /\ call_body' = Some(body(params.sequence))
    /\ pc' = "emitted"
    /\ UNCHANGED <<params, run, instructions, collected, built>>
    /\ UNCHANGED driver_vars

BodyRepeated ==
    /\ pc = "setup"
    /\ params.policy = "body_repeated"
    /\ call_body' = Some(body_repeated(params.repetitions, params.sequence))
    /\ pc' = "emitted"
    /\ UNCHANGED <<params, run, instructions, collected, built>>
    /\ UNCHANGED driver_vars

\* body_counted is entered: the argument vector becomes the local.
BodyCountedEnter ==
    /\ pc = "setup"
    /\ params.policy = "body_counted"
    /\ instructions' = body_counted_argument(params.counted)
    /\ collected' = <<>>
    /\ pc' = "counting"
    /\ UNCHANGED <<params, run, call_body, built>>
    /\ UNCHANGED driver_vars

\* One item of (0..len).cycle().take(len * repetitions).map(closure).
BodyCountedMap ==
    /\ pc = "counting"
    /\ Len(collected) < Len(instructions) * params.repetitions
    /\ LET step == counted_map(instructions, (Len(collected) % Len(instructions)) + 1)
       IN  /\ collected' = Append(collected, step.yield)
           /\ instructions' = step.instructions
    /\ UNCHANGED <<params, run, pc, call_body, built>>
    /\ UNCHANGED driver_vars

\* The iterator is exhausted: End is chained and the body collected.
BodyCountedCollect ==
    /\ pc = "counting"
    /\ Len(collected) = Len(instructions) * params.repetitions
    /\ call_body' = Some(body_counted_collect(collected))
    /\ pc' = "emitted"
    /\ UNCHANGED <<params, run, instructions, collected, built>>
    /\ UNCHANGED driver_vars

\* The definition of this run: the scenario's, with the emitted call body.
scenario_def == [params.def EXCEPT !.call_body = call_body]

CreateCode ==
    /\ pc = "emitted"
    /\ LET wasm == create_code(scenario_def)
       IN  built' = Append(built, [def |-> scenario_def,
                                   module |-> build_module(scenario_def),
                                   code |-> wasm.code, hash |-> wasm.hash])
    /\ call_body' = None
    /\ collected' = <<>>
    /\ IF run < MaxRuns
       THEN run' = run + 1 /\ pc' = "setup"
       ELSE run' = run /\ pc' = "done"
    /\ UNCHANGED <<params, instructions>>
    /\ UNCHANGED driver_vars

Next ==
    \/ KeepCallBody
    \/ Body
    \/ BodyRepeated
    \/ BodyCountedEnter
    \/ BodyCountedMap
    \/ BodyCountedCollect
    \/ CreateCode

Spec == Init /\ [][Next]_vars


(***************************************************************************)
(* Reading an emitted module: wasm's function index space lists the        *)
(* imported functions first, in import order, then the internal ones.      *)
(***************************************************************************)
IsFunctionImport(entry) == entry.kind = "Function"
IsMemoryImport(entry) == entry.kind = "Memory"
FunctionImports(module) == SelectSeq(module.import, IsFunctionImport)
MemoryImports(module) == SelectSeq(module.import, IsMemoryImport)

\* The position in the code section of the function with index idx.
InternalPosition(module, idx) == idx - Len(FunctionImports(module)) + 1

ExpectedBody(opt) == IF opt = None THEN [locals |-> <<>>, code |-> <<End>>] ELSE opt[1]

Last(s) == s[Len(s)]

(***************************************************************************)
(* C1: create_code emits exactly two exports, "deploy" bound to function   *)
(* index n and "call" to n + 1, n being the number of imported functions:  *)
(* these are the two internal functions right after the imports, the       *)
(* first carrying the deploy body and the second the call body.            *)
(***************************************************************************)
C1_ExportsDeployAndCall ==
    \A r \in DOMAIN built :
        LET module == built[r].module
            n == Len(built[r].def.imported_functions)
        IN  /\ module.export =
                   <<[field |-> "deploy", kind |-> "Function", index |-> n],
                     [field |-> "call", kind |-> "Function", index |-> n + 1]>>
            /\ InternalPosition(module, module.export[1].index) = 1
            /\ InternalPosition(module, module.export[2].index) = 2
            /\ module.code[1] = ExpectedBody(built[r].def.deploy_body)
            /\ module.code[2] = ExpectedBody(built[r].def.call_body)

C1_Witness ==
    \E r \in DOMAIN built :
        /\ Len(built[r].def.imported_functions) = 2
        /\ built[r].def.memory # None
        /\ built[r].module.export[1].index = 2

(***************************************************************************)
(* C2: the k-th declared imported function is the k-th function import of  *)
(* the emitted module (function index k, counted from 0), under module     *)
(* "seal0", with its declared name and signature; every import index is    *)
(* below the indices of the two entry points; a memory import takes no     *)
(* function index.                                                         *)
(***************************************************************************)
C2_ImportsInDeclarationOrder ==
    \A r \in DOMAIN built :
        LET module == built[r].module
            declared == built[r].def.imported_functions
            imported == FunctionImports(module)
        IN  /\ Len(imported) = Len(declared)
            /\ \A k \in 1..Len(declared) :
                   /\ imported[k].module = "seal0"
                   /\ imported[k].field = declared[k].name
                   /\ module.types[imported[k].type_ref + 1] =
                          signature(declared[k].params, declared[k].return_type)
                   /\ k - 1 < module.export[1].index
                   /\ k - 1 < module.export[2].index
            /\ Len(module.import) =
                   Len(declared) + (IF built[r].def.memory = None THEN 0 ELSE 1)

C2_Witness ==
    \E r \in DOMAIN built :
        /\ Len(built[r].def.imported_functions) = 2
        /\ built[r].def.imported_functions[1] # built[r].def.imported_functions[2]
        /\ built[r].def.memory # None
        /\ FunctionImports(built[r].module)[2].field =
               built[r].def.imported_functions[2].name

(***************************************************************************)
(* C3: every emitted module has exactly two internal functions; a body     *)
(* left as None becomes the body made of the end marker alone, a given     *)
(* body is used unchanged.                                                 *)
(***************************************************************************)
C3_TwoInternalFunctions ==
    \A r \in DOMAIN built :
        LET module == built[r].module
            def == built[r].def
        IN  /\ Len(module.functions) = 2
            /\ Len(module.code) = 2
            /\ def.deploy_body = None => module.code[1].code = <<End>>
            /\ def.call_body = None => module.code[2].code = <<End>>
            /\ def.deploy_body # None => module.code[1] = def.deploy_body[1]
            /\ def.call_body # None => module.code[2] = def.call_body[1]

C3_Witness ==
    \E r \in DOMAIN built :
        /\ built[r].def.deploy_body = None
        /\ built[r].def.call_body # None
        /\ built[r].module.code[1].code = <<End>>
        /\ built[r].module.code[2] = built[r].def.call_body[1]

(***************************************************************************)
(* C4: body_repeated(N, seq), K = Len(seq), yields N * K instructions      *)
(* followed by one End; instruction j (from 0) is seq[j mod K]; with       *)
(* N = 0 or K = 0 the body is the End alone.                               *)
(***************************************************************************)
C4_RepeatedBody ==
    (params.policy = "body_repeated" /\ call_body # None) =>
        LET code == call_body[1].code
            K == Len(params.sequence)
            N == params.repetitions
        IN  /\ Len(code) = N * K + 1
            /\ code[N * K + 1] = End
            /\ \A j \in 0..(N * K - 1) : code[j + 1] = params.sequence[(j % K) + 1]
            /\ (N = 0 \/ K = 0) => code = <<End>>

C4_Witness ==
    /\ params.policy = "body_repeated"
    /\ call_body # None
    /\ params.repetitions = 3
    /\ Len(params.sequence) = 2
    /\ params.sequence[1] # params.sequence[2]
    /\ Len(call_body[1].code) = 7


(***************************************************************************)
(* What body_counted has yielded so far: the items of the map while it     *)
(* runs, the collected body without its End afterwards.                    *)
(***************************************************************************)
CountedYield ==
    IF pc = "counting" THEN collected
    ELSE IF params.policy = "body_counted" /\ call_body # None
         THEN SubSeq(call_body[1].code, 1, Len(call_body[1].code) - 1)
         ELSE <<>>

\* The instruction yielded for slot (1-based) in repetition i (0-based).
YieldAt(slot, i) == CountedYield[i * Len(params.counted) + slot]
Repetitions(slot) ==
    {i \in 0..params.repetitions : i * Len(params.counted) + slot <= Len(CountedYield)}
CounterSlots ==
    {slot \in 1..Len(params.counted) : params.counted[slot].kind = "Counter"}

CountedValues ==
    \A slot \in CounterSlots : \A i \in Repetitions(slot) :
        YieldAt(slot, i) =
            I32Const(params.counted[slot].offset + i * params.counted[slot].increment_by)

(***************************************************************************)
(* C5 as stated: every Counter(base, increment) slot yields                *)
(* I32Const(base + i * increment) in repetition i, and the values are      *)
(* strictly increasing across i.  Refuted by a Counter whose increment     *)
(* is 0.                                                                   *)
(***************************************************************************)
C5_Original_StrictlyIncreasing ==
    /\ CountedValues
    /\ \A slot \in CounterSlots : \A i, j \in Repetitions(slot) :
           i < j => YieldAt(slot, i).arg < YieldAt(slot, j).arg

(***************************************************************************)
(* C5 amended: every Counter(base, increment) slot yields                  *)
(* I32Const(base + i * increment) in repetition i; the values are          *)
(* strictly increasing across i when increment > 0 and all equal to base   *)
(* when increment = 0.                                                     *)
(***************************************************************************)
C5_CountedValues ==
    /\ CountedValues
    /\ \A slot \in CounterSlots : \A i, j \in Repetitions(slot) :
           /\ (i < j /\ params.counted[slot].increment_by > 0) =>
                  YieldAt(slot, i).arg < YieldAt(slot, j).arg
           /\ params.counted[slot].increment_by = 0 =>
                  YieldAt(slot, i).arg = params.counted[slot].offset

C5_Witness ==
    /\ params.policy = "body_counted"
    /\ call_body # None
    /\ params.repetitions = 3
    /\ \E slot \in CounterSlots :
           /\ params.counted[slot].increment_by > 0
           /\ Repetitions(slot) = {0, 1, 2}
           /\ YieldAt(slot, 2).arg =
                  params.counted[slot].offset + 2 * params.counted[slot].increment_by

(***************************************************************************)
(* C6 as stated: under each of the three policies the last instruction of  *)
(* the produced stream is End, whatever the input sequence and the         *)
(* repetition count.  Refuted by body, which adds nothing to its input.    *)
(***************************************************************************)
C6_Original_AlwaysTerminated ==
    (params.policy \in {"body", "body_repeated", "body_counted"} /\ call_body # None) =>
        /\ Len(call_body[1].code) > 0
        /\ Last(call_body[1].code) = End

(***************************************************************************)
(* C6 amended: body_repeated and body_counted always produce a stream      *)
(* whose last instruction is End; body produces exactly the sequence it    *)
(* is given, so its stream ends with End exactly when that sequence does.  *)
(***************************************************************************)
C6_Terminated ==
    call_body # None =>
        /\ params.policy \in {"body_repeated", "body_counted"} =>
               /\ Len(call_body[1].code) > 0
               /\ Last(call_body[1].code) = End
        /\ params.policy = "body" => call_body[1].code = params.sequence

C6_Witness ==
    /\ params.policy = "body_counted"
    /\ call_body # None
    /\ params.repetitions > 0
    /\ Len(params.counted) > 0
    /\ Last(call_body[1].code) = End

C8_MemoryImport ==
    \A r \in DOMAIN built :
        LET memory == built[r].def.memory
            imported == MemoryImports(built[r].module)
        IN  /\ memory = None => imported = <<>>
            /\ memory # None =>
                   /\ Len(imported) = 1
                   /\ imported[1].module = "env"
                   /\ imported[1].field = "memory"
                   /\ imported[1].initial = memory[1].min_pages
                   /\ imported[1].maximum = Some(memory[1].max_pages)

C8_Witness ==
    \E r \in DOMAIN built :
        /\ built[r].def.memory = Some(ImportedMemory(1, 2))
        /\ Len(MemoryImports(built[r].module)) = 1
        /\ Len(FunctionImports(built[r].module)) > 0

(***************************************************************************)
(* C9: the emitted data section has one active initializer per declared    *)
(* data segment, in declaration order, each at its declared offset with    *)
(* its declared bytes.                                                     *)
(***************************************************************************)
C9_DataSegments ==
    \A r \in DOMAIN built :
        LET declared == built[r].def.data_segments
            emitted == built[r].module.data
        IN  /\ Len(emitted) = Len(declared)
            /\ \A k \in 1..Len(declared) :
                   /\ emitted[k].index = 0
                   /\ emitted[k].offset = <<I32Const(declared[k].offset), End>>
                   /\ emitted[k].value = declared[k].value

C9_Witness ==
    \E r \in DOMAIN built :
        /\ Len(built[r].def.data_segments) = 2
        /\ built[r].def.data_segments[1] # built[r].def.data_segments[2]
        /\ built[r].module.data[2].value = built[r].def.data_segments[2].value

\* The scenarios of the benchmark catalog, by name.
CatalogNames == {s.scenario : s \in CatalogScenarios}

\* The bytes [lo, hi) of linear memory an emitted data segment initializes.
SegmentLo(segment) == segment.offset[1].arg
SegmentHi(segment) == segment.offset[1].arg + Len(segment.value)
SegmentsDisjoint(a, b) ==
    \/ SegmentHi(a) <= SegmentLo(b)
    \/ SegmentHi(b) <= SegmentLo(a)
    \/ a.value = <<>>
    \/ b.value = <<>>

\* How often the scenario's sequence is emitted into the call body.
Emissions(p) == IF p.policy = "body" THEN 1 ELSE p.repetitions
SequenceLen(p) == IF p.policy = "body_counted" THEN Len(p.counted) ELSE Len(p.sequence)

(***************************************************************************)
(* C10: in every catalog module the emitted data segments initialize       *)
(* pairwise disjoint byte ranges, and in every repetition of the call      *)
(* body each pointer operand that names a pre-initialized input (length    *)
(* cell, key, value, hash, account id) is an i32 constant p such that the  *)
(* bytes [p, p + len) read through it lie inside the data segment holding  *)
(* that input.                                                             *)
(***************************************************************************)
C10_SegmentsDisjointOperandsInside ==
    \A r \in DOMAIN built :
        params.scenario \in CatalogNames =>
            LET data == built[r].module.data
                code == built[r].module.code[2].code
            IN  /\ \A a, b \in DOMAIN data : a < b => SegmentsDisjoint(data[a], data[b])
                /\ Len(code) = Emissions(params) * SequenceLen(params)
                                   + (IF params.policy = "body" THEN 0 ELSE 1)
                /\ \A k \in DOMAIN params.operands :
                       \A i \in 0..(Emissions(params) - 1) :
                           LET operand == params.operands[k]
                               instr == code[i * SequenceLen(params) + operand.slot]
                               segment == data[operand.segment]
                           IN  /\ instr.op = "I32Const"
                               /\ SegmentLo(segment) <= instr.arg
                               /\ instr.arg + operand.len <= SegmentHi(segment)

C10_Witness ==
    \E r \in DOMAIN built :
        /\ params.scenario = "seal_instantiate"
        /\ params.repetitions >= 2
        /\ Len(built[r].module.data) = 3
        /\ built[r].module.data[2].value # <<>>
        /\ built[r].module.code[2].code[Len(params.counted) + 1].arg >
               built[r].module.code[2].code[1].arg
        /\ SegmentLo(built[r].module.data[3]) = SegmentHi(built[r].module.data[2])

(***************************************************************************)
(* The claims about the benchmark driver, checked under DriverSpec.        *)
(***************************************************************************)
\* An Outcome that succeeded and left the storage exactly as it was.
NoOp(s, out) == out.result.ok /\ out.state = s

\* The codes the driver deploys in some scenario.
DeployedCodes ==
    {dummy_code.code, bench.module.code}
        \cup {instantiate_callee(i).code : i \in 0..(bench.r * API_BENCHMARK_BATCH_SIZE)}

(***************************************************************************)
(* C11: deploying code is idempotent by content hash.  In every state a    *)
(* scenario reaches, put_code_raw with the bytes of a code that is already *)
(* registered succeeds and leaves the registry, the balances, the          *)
(* contracts and the block number as they are; deploying a code that is    *)
(* not registered yet succeeds and adds just its hash.  So the repeated    *)
(* deploy inside instantiate_contract_from_account (seal_call instantiates *)
(* every callee from the same dummy module) never fails.                   *)
(***************************************************************************)
C11_DeployIdempotent ==
    \A code \in DeployedCodes :
        LET once == put_code_raw(Storage, code)
            twice == put_code_raw(once.state, code)
        IN  /\ once.result.ok
            /\ once.state.code_storage = code_storage \cup {Hashing_hash(code)}
            /\ NoOp(once.state, twice)
            /\ Hashing_hash(code) \in code_storage => NoOp(Storage, once)

\* seal_call has instantiated two callees from the one dummy module.
C11_Witness ==
    /\ bench.name = "seal_call"
    /\ Len(fixtures.contracts) >= 2
    /\ fixtures.contracts[1].code_hash = fixtures.contracts[2].code_hash
    /\ fixtures.contracts[1].account_id # fixtures.contracts[2].account_id
    /\ fixtures.contracts[1].code_hash \in code_storage

\* The addresses a scenario instantiates contracts at.
ScenarioAddresses ==
    {bench_instance(bench), tombstone_address}
        \cup {instantiate_addresses(bench)[i] : i \in DOMAIN instantiate_addresses(bench)}
        \cup {instance_of(account("instantiator", i), dummy_code) :
                  i \in 0..(bench.r * API_BENCHMARK_BATCH_SIZE)}

\* What an instantiate_contract statement is run with, and the two pallet
\* calls it makes before the alive check.
InstantiateAddress == contract_address_for(Current.module.hash, <<>>, Current.who)
InstantiateDeployed ==
    put_code_raw(init_block_number(make_free_balance_be(Storage, Current.who, funding)),
                 Current.module.code)
InstantiateInstantiated ==
    Contracts_instantiate(InstantiateDeployed.state, runtime, Current.who,
                          Endow(Current.endowment, runtime).endowment, Weight_max_value,
                          Current.module.hash, <<>>)

\* The fixture an instantiate_contract statement has to return: the address
\* computed from (module.hash, data, caller), the caller, the module's hash
\* and the amount that arrived at the address.
InstantiateFixture ==
    Contract(Current.who, InstantiateAddress, InstantiateAddress,
             Get(free_balance', InstantiateAddress, 0)
                 - Currency_free_balance(Storage, InstantiateAddress),
             Current.module.hash)

InstantiateReturnsAliveFixture ==
    outcome' = None =>
        /\ Get(contract_info_of', InstantiateAddress, NoContractInfo).kind = "Alive"
        /\ fixtures'.contracts = Append(fixtures.contracts, InstantiateFixture)
        /\ Get(free_balance', Current.who, 0) = funding - InstantiateFixture.endowment

(***************************************************************************)
(* C12 (as amended): instantiate_contract_from_account returns Ok only if  *)
(* the contract at the address computed from (module.hash, data, caller)   *)
(* is alive after the instantiation, and the fixture it returns holds that *)
(* address, the caller, module.hash and the amount transferred to the      *)
(* address.  When it returns Err no fixture is returned and the error is   *)
(* the error of put_code_raw or of Contracts::instantiate if one of them   *)
(* failed (the `?` returns before the alive check), and otherwise          *)
(* "Expected contract to be alive at this point."; get_alive returns that  *)
(* error for every address that holds no alive contract.                   *)
(***************************************************************************)
C12_InstantiateFixture ==
    /\ [](\A addr \in ScenarioAddresses :
              /\ get_alive(Storage, addr).ok
                     <=> ContractInfoOf_get(Storage, addr).kind = "Alive"
              /\ ~get_alive(Storage, addr).ok =>
                     get_alive(Storage, addr).err
                         = "Expected contract to be alive at this point.")
    /\ [][At("instantiate_contract") =>
            /\ InstantiateReturnsAliveFixture
            /\ outcome' # None =>
                   /\ fixtures' = fixtures
                   /\ outcome'[1].err =
                          IF ~InstantiateDeployed.result.ok
                          THEN InstantiateDeployed.result.err
                          ELSE IF ~InstantiateInstantiated.result.ok
                          THEN InstantiateInstantiated.result.err
                          ELSE "Expected contract to be alive at this point."]_vars

\* Contracts::instantiate has refused the endowment: the scenario ended with
\* the pallet's error, no fixture, and no alive contract at the address.
C12_Witness ==
    /\ phase = "done"
    /\ outcome # None
    /\ outcome[1].err = "NewContractNotFunded"
    /\ bench.setup[stmt].op = "instantiate_contract"
    /\ fixtures.contracts = <<>>
    /\ ContractInfoOf_get(Storage, bench_instance(bench)).kind # "Alive"

\* C12 as stated: whenever the contract is not alive at the address the error
\* is "Expected contract to be alive at this point.".
C12_Original_AliveCheckError ==
    [][At("instantiate_contract") =>
          /\ InstantiateReturnsAliveFixture
          /\ Get(contract_info_of', InstantiateAddress, NoContractInfo).kind # "Alive" =>
                 /\ outcome' # None
                 /\ outcome'[1].err = "Expected contract to be alive at this point."]_vars

\* Endowments around the subsistence threshold, the two policies' endowments,
\* all of which the funded caller can pay keeping its minimum balance.
EndowmentValues(T) ==
    (0..(subsistence_threshold_uncached(T) + 2))
        \cup {Endow("CollectRent", T).endowment, Endow("Max", T).endowment}

\* instantiate followed by the alive check, for the measured instantiate
\* extrinsic with the endowment replaced.
InstantiateThenAlive(endowment) ==
    LET out == dispatch(Storage, runtime, [bench.extrinsic EXCEPT !.value = endowment],
                        <<>>)
    IN  out.result.ok /\ ensure_alive(out.state, bench_instance(bench)).ok

KindAfterCollect(s, addr, number) ==
    ContractInfoOf_get(collect_rent(set_block_number(s, number), runtime, addr), addr).kind
KindAfterClaim(s, addr, number) ==
    ContractInfoOf_get(
        Contracts_claim_surcharge(set_block_number(s, number), runtime, instantiator,
                                  addr).state, addr).kind

\* Block heights from the current one up to, but below, the eviction block:
\* the current one, the one before the eviction block, and the one the call
\* benchmark picks.
BlocksBelow(s, at) == {number \in {s.block_number, at - 5, at - 1} :
                          s.block_number <= number /\ number < at}

\* Forced eviction of the alive contract at addr, from the storage s.
ForcedEviction(s, addr) ==
    LET at == eviction_at(s, runtime, addr)
    IN  at.result.ok =>
            /\ KindAfterCollect(at.state, addr, eviction_block(at.result.value, runtime))
                   = "Tombstone"
            /\ KindAfterClaim(at.state, addr, eviction_block(at.result.value, runtime))
                   = "Tombstone"
            /\ \A number \in BlocksBelow(at.state, at.result.value) :
                   KindAfterCollect(at.state, addr, number) = "Alive"

\* The contracts of the scenario instantiated with Endow::CollectRent / Max.
RentBearing ==
    {c \in {fixtures.contracts[i] : i \in DOMAIN fixtures.contracts} :
        c.endowment = Endow("CollectRent", runtime).endowment}
Maximal ==
    {c \in {fixtures.contracts[i] : i \in DOMAIN fixtures.contracts} :
        c.endowment = Endow("Max", runtime).endowment}

(***************************************************************************)
(* C14: for a contract instantiated with Endow::CollectRent, in every      *)
(* state in which it is alive: rent collection (collect_rent, and the      *)
(* claim_surcharge extrinsic) at block eviction_at + SignedClaimHandicap   *)
(* + 5 leaves a tombstone, and rent collection at a block below            *)
(* eviction_at (such as eviction_at - 5) leaves it alive.  The same holds  *)
(* inside create_tombstone, after its items are stored.                    *)
(***************************************************************************)
C14_ForcedEviction ==
    /\ \A c \in RentBearing :
           ContractInfoOf_get(Storage, c.account_id).kind = "Alive" =>
               ForcedEviction(Storage, c.account_id)
    /\ At("create_tombstone") =>
           LET instantiated == instantiate_contract(Storage, runtime, dummy_code, <<>>,
                                                    "CollectRent")
               stored == store_items(instantiated.state, tombstone_address,
                             create_storage(Current.number[1], Current.number[2]))
           IN  (instantiated.result.ok /\ stored.result.ok) =>
                   ForcedEviction(stored.state, tombstone_address)

\* claim_surcharge ran at eviction_at + SignedClaimHandicap + 5 and left a
\* tombstone where the setup had ensured an alive contract.
C14_Witness ==
    /\ bench.name = "claim_surcharge"
    /\ dispatched # <<>>
    /\ block_number > runtime.signed_claim_handicap + 5
    /\ RentBearing # {}
    /\ ContractInfoOf_get(Storage, bench_instance(bench)).kind = "Tombstone"

\* A block height no scenario of the runtime goes beyond: a rent-bearing
\* contract pays at least one unit per block out of its endowment.
Horizon(T) ==
    1 + saturating_mul(T.rent_deposit_offset,
                       T.storage_size_offset + subsistence_threshold_uncached(T))
      + T.signed_claim_handicap + 5

(***************************************************************************)
(* C15: the two endowment policies differ in rent behaviour.  A contract   *)
(* instantiated with Endow::CollectRent has a finite eviction block        *)
(* (eviction_at returns Ok in every state of the setup in which the        *)
(* contract is alive and its rent is settled up to the current block), and *)
(* the call benchmark's call charges it rent (its balance ends below       *)
(* balance before + value).  A                                             *)
(* contract instantiated with Endow::Max is never turned into a tombstone, *)
(* rent collection leaves it alive at every block height up to the         *)
(* highest a scenario reaches, and instantiate_contract_from_account       *)
(* stores it with storage_size 0.                                          *)
(***************************************************************************)
C15_PoliciesDiffer ==
    /\ block_number <= Horizon(runtime)
    /\ \A c \in RentBearing :
           (/\ ContractInfoOf_get(Storage, c.account_id).kind = "Alive"
            /\ ContractInfoOf_get(Storage, c.account_id).deduct_block = block_number
            /\ dispatched = <<>>) =>
               /\ eviction_at(Storage, runtime, c.account_id).result.ok
               /\ eviction_at(Storage, runtime, c.account_id).result.value
                      <= Horizon(runtime)
    /\ (bench.name = "call" /\ dispatched # <<>> /\ dispatched[1].result.ok) =>
           Currency_free_balance(Storage, bench_instance(bench))
               < fixtures.before + bench.extrinsic.value
    /\ \A c \in Maximal :
           /\ ContractInfoOf_get(Storage, c.account_id).kind # "Tombstone"
           /\ ContractInfoOf_get(Storage, c.account_id).kind = "Alive" =>
                  \A number \in {block_number, Horizon(runtime)} :
                      KindAfterCollect(Storage, c.account_id, number) = "Alive"
    /\ (At("instantiate_contract") /\ Current.endowment = "Max") =>
           LET out == instantiate_contract_from_account(Storage, runtime, Current.who,
                          Current.module, <<>>, Current.endowment)
           IN  out.result.ok =>
                   /\ ContractInfoOf_get(out.state, InstantiateAddress).kind = "Alive"
                   /\ ContractInfoOf_get(out.state, InstantiateAddress).storage_size = 0
                   /\ out.result.value.endowment = max_endowment(runtime)

\* The call benchmark has called its rent-bearing contract, which paid rent
\* and still has an eviction block ahead.
C15_Witness ==
    /\ bench.name = "call"
    /\ phase = "done"
    /\ outcome[1].ok
    /\ RentBearing # {}
    /\ Maximal = {}
    /\ Currency_free_balance(Storage, bench_instance(bench))
           < fixtures.before + bench.extrinsic.value
    /\ block_number > 1

\* The numbers and sizes of items create_tombstone is checked with.
MaxStorNum == 3
MaxStorSize == 2

\* The storage map holds exactly the pairs of the snapshot.
HoldsExactly(storage, snapshot) ==
    /\ DOMAIN storage = {snapshot[i][1] : i \in DOMAIN snapshot}
    /\ Cardinality(DOMAIN storage) = Len(snapshot)
    /\ \A i \in DOMAIN snapshot : storage[snapshot[i][1]] = snapshot[i][2]

\* The snapshot is the stor_num pairs in the order they were written.
IsSnapshot(snapshot, stor_num, stor_size) ==
    /\ Len(snapshot) = stor_num
    /\ \A i \in 1..stor_num :
           snapshot[i] = <<StorageKey(i - 1), [k \in 1..stor_size |-> 42]>>

\* create_tombstone(stor_num, stor_size) from the storage s.
TombstoneCreated(s, stor_num, stor_size) ==
    LET out == create_tombstone(s, runtime, stor_num, stor_size)
        written == store_items(
                       instantiate_contract(s, runtime, dummy_code, <<>>,
                                            "CollectRent").state,
                       tombstone_address, create_storage(stor_num, stor_size))
    IN  out.result.ok =>
            /\ out.result.value.contract.account_id = tombstone_address
            /\ written.result.ok
            /\ ContractInfoOf_get(written.state, tombstone_address).kind = "Alive"
            /\ ContractInfoOf_get(out.state, tombstone_address).kind = "Tombstone"
            /\ IsSnapshot(out.result.value.storage, stor_num, stor_size)
            /\ HoldsExactly(ContractInfoOf_get(written.state, tombstone_address).storage,
                            out.result.value.storage)
            /\ ContractInfoOf_get(out.state, tombstone_address).storage
                   = ContractInfoOf_get(written.state, tombstone_address).storage

(***************************************************************************)
(* C16: create_tombstone(n, size) returns Ok only when the contract, alive *)
(* with its items written, has become a tombstone; the storage snapshot of *)
(* the returned fixture is exactly the n pairs (key of i, size bytes)      *)
(* written before the eviction, in the order written, and the eviction     *)
(* leaves what the tombstone stands for equal to those pairs.  Checked for *)
(* every n and size up to MaxStorNum / MaxStorSize and for the tombstones  *)
(* the restoration benchmarks create, up to their measured call.           *)
(***************************************************************************)
C16_TombstoneSnapshot ==
    /\ At("create_tombstone") =>
           /\ \A stor_num \in 0..MaxStorNum, stor_size \in 0..MaxStorSize :
                  TombstoneCreated(Storage, stor_num, stor_size)
           /\ TombstoneCreated(Storage, Current.number[1], Current.number[2])
    /\ \A i \in DOMAIN fixtures.tombstones :
           dispatched = <<>> =>
               /\ ContractInfoOf_get(Storage,
                      fixtures.tombstones[i].contract.account_id).kind = "Tombstone"
               /\ IsSnapshot(fixtures.tombstones[i].storage,
                             bench.setup[1].number[1], bench.setup[1].number[2])
               /\ HoldsExactly(
                      ContractInfoOf_get(Storage,
                          fixtures.tombstones[i].contract.account_id).storage,
                      fixtures.tombstones[i].storage)

\* seal_restore_to holds the tombstone of a contract with its 10 items.
C16_Witness ==
    /\ bench.name = "seal_restore_to"
    /\ Len(fixtures.tombstones) = 1
    /\ Len(fixtures.tombstones[1].storage) = seal_restore_to_stor_num
    /\ Len(fixtures.tombstones[1].storage[1][2]) = runtime.max_value_size
    /\ ContractInfoOf_get(Storage, tombstone_address).kind = "Tombstone"
    /\ Cardinality(DOMAIN ContractInfoOf_get(Storage, tombstone_address).storage)
           = seal_restore_to_stor_num

\* The result of the setup statement the scenario is at, from the driver's
\* functions.
SetupResult ==
    CASE Current.op = "put_code_raw" -> put_code_raw(Storage, Current.module.code).result
      [] Current.op = "instantiate_contract" ->
             instantiate_contract_from_account(Storage, runtime, Current.who,
                 Current.module, <<>>, Current.endowment).result
      [] Current.op = "create_tombstone" ->
             create_tombstone(Storage, runtime, Current.number[1],
                              Current.number[2]).result
      [] Current.op = "store_items" /\ Current.mode = "delta" ->
             store_items(Storage, Current.who, Current.items).result
      [] Current.op = "set_block_number" /\ Current.mode # "next" ->
             eviction_at(Storage, runtime, Current.who).result
      [] Current.op = "ensure_alive" -> ensure_alive(Storage, Current.who)
      [] Current.op = "ensure_tombstone" -> ensure_tombstone(Storage, Current.who)
      [] Current.op = "ensure_absent" ->
             IF ContractInfoOf_get(Storage, Current.who).kind = "None"
             THEN Ok(<<>>)
             ELSE Err("Expected that contract does not exist at this point.")
      [] OTHER -> Ok(<<>>)

(***************************************************************************)
(* C17: a setup statement that fails (a fixture function returns Err, or   *)
(* an alive / tombstone / non-existence precondition does not hold) ends   *)
(* the scenario with that error, which names what went wrong, and the      *)
(* measured extrinsic is not dispatched; a scenario that has ended never   *)
(* takes another step; a scenario that ended without a dispatch reports an *)
(* error, never a result.  ensure_alive and ensure_tombstone fail, with    *)
(* their messages, exactly when the contract is not in the expected state. *)
(***************************************************************************)
C17_SetupFailureAborts ==
    /\ [](\A addr \in ScenarioAddresses :
              /\ ensure_alive(Storage, addr).ok
                     <=> ContractInfoOf_get(Storage, addr).kind = "Alive"
              /\ ensure_tombstone(Storage, addr).ok
                     <=> ContractInfoOf_get(Storage, addr).kind = "Tombstone"
              /\ ensure_alive(Storage, addr).err
                     \in {"", "Expected contract to be alive at this point."}
              /\ ensure_tombstone(Storage, addr).err
                     \in {"", "Expected contract to be a tombstone at this point."})
    /\ []((phase = "done" /\ dispatched = <<>>) =>
              /\ outcome # None
              /\ ~outcome[1].ok
              /\ outcome[1].err # "")
    /\ [][phase # "done"]_vars
    /\ [][(phase = "setup" /\ stmt <= Len(bench.setup) /\ ~SetupResult.ok) =>
              /\ phase' = "done"
              /\ outcome' = Some(SetupResult)
              /\ SetupResult.err # ""
              /\ dispatched' = <<>>]_vars

\* claim_surcharge's setup could not instantiate its contract: the scenario
\* ended there with the error and without a dispatch.
C17_Witness ==
    /\ bench.name = "claim_surcharge"
    /\ phase = "done"
    /\ stmt <= Len(bench.setup)
    /\ outcome # None
    /\ ~outcome[1].ok
    /\ outcome[1].err # ""
    /\ dispatched = <<>>

(***************************************************************************)
(* C18: in every scenario the order is setup, one dispatch of the measured *)
(* extrinsic, verify.  Nothing is dispatched during the setup block, the   *)
(* verify block runs only after the one dispatch has returned Ok, a        *)
(* scenario that returns Ok has dispatched exactly once, and there is      *)
(* never a second dispatch: a dispatch happens only at the end of the      *)
(* setup block with nothing dispatched before, and a failed dispatch ends  *)
(* the scenario.  Every measured instantiate or call is dispatched with    *)
(* the gas limit Weight::max_value().                                      *)
(***************************************************************************)
C18_OneDispatch ==
    /\ [](/\ Len(dispatched) <= 1
          /\ phase = "setup" => dispatched = <<>>
          /\ phase = "verify" => Len(dispatched) = 1 /\ dispatched[1].result.ok
          /\ (outcome # None /\ outcome[1].ok) =>
                 Len(dispatched) = 1 /\ dispatched[1].result.ok
          /\ \A i \in DOMAIN dispatched :
                 /\ dispatched[i].extrinsic = measured(bench, runtime)
                 /\ dispatched[i].extrinsic.name \in {"instantiate", "call"} =>
                        dispatched[i].extrinsic.gas_limit = Weight_max_value)
    /\ [][dispatched' # dispatched =>
              /\ dispatched = <<>>
              /\ Len(dispatched') = 1
              /\ phase = "setup"
              /\ stmt = Len(bench.setup) + 1
              /\ IF dispatched'[1].result.ok
                 THEN phase' = "verify" /\ outcome' = None
                 ELSE phase' = "done" /\ outcome' = Some(dispatched'[1].result)]_vars

\* The call benchmark has run through: setup, the one call with the maximal
\* gas limit, verify.
C18_Witness ==
    /\ bench.name = "call"
    /\ phase = "done"
    /\ outcome[1].ok
    /\ stmt = Len(bench.verify) + 1
    /\ Len(dispatched) = 1
    /\ dispatched[1].extrinsic.name = "call"
    /\ dispatched[1].extrinsic.gas_limit = Weight_max_value

\* A value of the balance type.
InRange(value) == 0 <= value /\ value <= Balance_max_value

(***************************************************************************)
(* C19: funding() is half of the maximum balance (rounded down), and with  *)
(* it no balance the driver or a verify block computes leaves the range of *)
(* the balance type: max_endowment() is funding - minimum_balance without  *)
(* saturating, a maximal instantiation succeeds and leaves the caller the  *)
(* minimum balance at least, every account's balance is in range in every  *)
(* state, and the verify blocks' funding - endowment - value, funding -    *)
(* endowment + SurchargeReward and before + value are in range.            *)
(***************************************************************************)
C19_BalancesInRange ==
    /\ funding + funding <= Balance_max_value
    /\ Balance_max_value - (funding + funding) <= 1
    /\ funding - minimum_balance(runtime) >= 0
    /\ max_endowment(runtime) = funding - minimum_balance(runtime)
    /\ \A who \in DOMAIN free_balance : InRange(free_balance[who])
    /\ (bench.name = "instantiate" /\ phase = "setup" /\ stmt >= 2) =>
           Currency_free_balance(Storage, account("caller", 0)) = funding
    /\ (At("instantiate_contract") /\ Current.endowment = "Max") =>
           LET out == instantiate_contract_from_account(Storage, runtime, Current.who,
                          Current.module, <<>>, Current.endowment)
           IN  /\ out.result.ok
               /\ Currency_free_balance(out.state, Current.who)
                      >= minimum_balance(runtime)
               /\ Currency_free_balance(out.state, Current.who)
                      + Currency_free_balance(out.state, InstantiateAddress) = funding
    /\ \A c \in Maximal : Currency_free_balance(Storage, c.caller) >= minimum_balance(runtime)
    /\ \A i \in DOMAIN fixtures.contracts :
           /\ InRange(fixtures.contracts[i].endowment)
           /\ InRange(funding - fixtures.contracts[i].endowment)
           /\ bench.name = "call" =>
                  InRange(funding - fixtures.contracts[i].endowment - call_value(runtime))
           /\ bench.name = "claim_surcharge" =>
                  InRange(funding - fixtures.contracts[i].endowment
                              + runtime.surcharge_reward)
    /\ InRange(call_value(runtime))
    /\ InRange(fixtures.before + call_value(runtime))
    /\ \A i \in DOMAIN bench.verify :
           bench.verify[i].op = "assert_balance" => InRange(bench.verify[i].number)

\* seal_caller's contract got the maximal endowment and its caller is left
\* with exactly the minimum balance.
C19_Witness ==
    /\ bench.name = "seal_caller"
    /\ Maximal # {}
    /\ Currency_free_balance(Storage, instantiator) = minimum_balance(runtime)
    /\ Currency_free_balance(Storage, bench_instance(bench)) = max_endowment(runtime)
    /\ dispatched # <<>>

\* The repetitions getter_code is built with, and the getters' names.
MaxRepeat == 3
GetterNames == {"seal_caller", "seal_now"}

\* The ModuleDefinition getter_code hands to create_code.
GetterDefinition(name, n) ==
    [getter_code(name, n).def EXCEPT
        !.call_body = Some(body_repeated(getter_code(name, n).repetitions,
                                         getter_code(name, n).sequence))]

CallSites(fbody) == SelectSeq(fbody.code, LAMBDA i : i.op = "Call")
ExportedIndex(module, field) ==
    {module.export[k].index : k \in {j \in DOMAIN module.export :
                                        module.export[j].field = field}}

\* The built module imports the getter, with the given parameter types and no
\* return value, as its only function; the function exported as "call" holds
\* n call-sites, all of function index 0, which is that import.
GetterShape(name, n, getter_params) ==
    LET emitted == build_module(GetterDefinition(name, n))
        imports == FunctionImports(emitted)
    IN  /\ Len(imports) = 1
        /\ imports[1].module = "seal0"
        /\ imports[1].field = name
        /\ emitted.types[imports[1].type_ref + 1] = signature(getter_params, None)
        /\ ExportedIndex(emitted, "call") = {2}
        /\ Len(emitted.code) = 2
        /\ Len(CallSites(emitted.code[2])) = n
        /\ \A k \in 1..Len(CallSites(emitted.code[2])) :
               CallSites(emitted.code[2])[k] = Call(0)
        /\ CallSites(emitted.code[1]) = <<>>
        /\ catalog_code(getter_code(name, n)).code = to_bytes(emitted)

GetterShapes(getter_params) ==
    \A name \in GetterNames : \A n \in 0..MaxRepeat : GetterShape(name, n, getter_params)

\* seal_caller: the getter module is instantiated with Endow::Max and its
\* call succeeds.
SealCallerSucceeds ==
    bench.name = "seal_caller" =>
        /\ bench.module = catalog_code(getter_code("seal_caller",
                                                   bench.r * API_BENCHMARK_BATCH_SIZE))
        /\ bench.setup[1].op = "instantiate_contract"
        /\ bench.setup[1].module = bench.module
        /\ bench.setup[1].endowment = "Max"
        /\ stmt >= 2 \/ phase # "setup" =>
               /\ Len(fixtures.contracts) = 1
               /\ fixtures.contracts[1].endowment = max_endowment(runtime)
               /\ fixtures.contracts[1].code_hash = bench.module.hash
               /\ ContractInfoOf_get(Storage, bench_instance(bench)).kind = "Alive"
        /\ dispatched # <<>> =>
               /\ dispatched[1].extrinsic.name = "call"
               /\ dispatched[1].extrinsic.dest = bench_instance(bench)
               /\ dispatched[1].result.ok
        /\ phase = "done" => outcome # None /\ outcome[1].ok

(***************************************************************************)
(* C20: the module getter_code(name, N) builds imports the getter name,    *)
(* taking two i32 arguments (the output pointer and the pointer to the     *)
(* output length) and returning nothing, as its only imported function;    *)
(* its call body holds exactly N call-sites, each of function index 0,     *)
(* the import; in seal_caller the module is instantiated with the maximal  *)
(* endowment, the instance is alive, and the call extrinsic on it          *)
(* succeeds.                                                               *)
(***************************************************************************)
C20_GetterModule == GetterShapes(<<"I32", "I32">>) /\ SealCallerSucceeds

\* C20 as stated: the imported getter takes no argument.
C20_Original_ZeroArgument == GetterShapes(<<>>) /\ SealCallerSucceeds

\* seal_caller ran through on a module with call-sites.
C20_Witness ==
    /\ bench.name = "seal_caller"
    /\ bench.r >= 1
    /\ Len(CallSites(build_module(GetterDefinition("seal_caller",
               bench.r * API_BENCHMARK_BATCH_SIZE)).code[2])) >= 2
    /\ phase = "done"
    /\ Len(dispatched) = 1
    /\ dispatched[1].result.ok
    /\ outcome[1].ok

(***************************************************************************)
(* C21: in the instantiate benchmark, for every data size n, the measured  *)
(* instantiate endows the subsistence threshold and succeeds; from then on *)
(* the caller's free balance is funding - endowment, the free balance at   *)
(* the address computed from (hash, data, caller) is the endowment, the    *)
(* contract there is alive, and the verify block ends with Ok.             *)
(***************************************************************************)
C21_InstantiateVerified ==
    (bench.name = "instantiate" /\ dispatched # <<>>) =>
        /\ dispatched[1].extrinsic.name = "instantiate"
        /\ dispatched[1].extrinsic.value = subsistence_threshold_uncached(runtime)
        /\ dispatched[1].extrinsic.data = Bytes(bench.r * 1024, 42)
        /\ dispatched[1].result.ok
        /\ Currency_free_balance(Storage, account("caller", 0))
               = funding - subsistence_threshold_uncached(runtime)
        /\ Currency_free_balance(Storage,
               contract_address_for(dummy_code.hash, Bytes(bench.r * 1024, 42),
                                    account("caller", 0)))
               = subsistence_threshold_uncached(runtime)
        /\ ContractInfoOf_get(Storage,
               contract_address_for(dummy_code.hash, Bytes(bench.r * 1024, 42),
                                    account("caller", 0))).kind = "Alive"
        /\ ensure_alive(Storage, bench_instance(bench)).ok
        /\ phase = "done" => outcome # None /\ outcome[1].ok

\* The instantiate benchmark with a kilobyte of data ran through its verify block.
C21_Witness ==
    /\ bench.name = "instantiate"
    /\ bench.r = 1
    /\ phase = "done"
    /\ stmt = Len(bench.verify) + 1
    /\ Len(dispatched) = 1
    /\ outcome[1].ok
    /\ Currency_free_balance(Storage, bench_instance(bench))
           = subsistence_threshold_uncached(runtime)

\* The call benchmark's rent-bearing contract, once instantiated.
CallInstance == fixtures.contracts[1]

(***************************************************************************)
(* C22: in the call benchmark the setup moves the block height to          *)
(* eviction_at - 5, a height after the instantiation, and the measured     *)
(* call transfers 100 times the minimum balance and succeeds; from then on *)
(* the caller's free balance is funding - endowment - value, the           *)
(* contract's free balance is below its balance before the call plus the   *)
(* value and it has paid rent up to the block of the call, the contract is *)
(* alive, and the verify block ends with Ok.                               *)
(***************************************************************************)
C22_CallVerified ==
    bench.name = "call" =>
        /\ (At("set_block_number") /\ phase = "setup") =>
               LET at == eviction_at(Storage, runtime, Current.who)
                   moved == block_relative_to(at, Current.mode, runtime)
               IN  /\ at.result.ok
                   /\ moved.result.ok
                   /\ moved.state.block_number = at.result.value - 5
                   /\ moved.state.block_number > block_number
                   /\ ContractInfoOf_get(moved.state, Current.who).deduct_block
                          = block_number
        /\ dispatched # <<>> =>
               /\ dispatched[1].extrinsic.name = "call"
               /\ dispatched[1].extrinsic.origin = CallInstance.caller
               /\ dispatched[1].extrinsic.dest = CallInstance.account_id
               /\ dispatched[1].extrinsic.value = minimum_balance(runtime) * 100
               /\ dispatched[1].result.ok
               /\ CallInstance.endowment = Endow("CollectRent", runtime).endowment
               /\ Currency_free_balance(Storage, CallInstance.caller)
                      = funding - CallInstance.endowment
                            - dispatched[1].extrinsic.value
               /\ Currency_free_balance(Storage, CallInstance.account_id)
                      < fixtures.before + dispatched[1].extrinsic.value
               /\ fixtures.before = CallInstance.endowment
               /\ ContractInfoOf_get(Storage, CallInstance.account_id).kind = "Alive"
               /\ ContractInfoOf_get(Storage, CallInstance.account_id).deduct_block
                      = block_number
               /\ block_number > 1
               /\ phase = "done" => outcome # None /\ outcome[1].ok

\* The call benchmark ran through its verify block; the contract paid rent.
C22_Witness ==
    /\ bench.name = "call"
    /\ phase = "done"
    /\ stmt = Len(bench.verify) + 1
    /\ Len(dispatched) = 1
    /\ outcome[1].ok
    /\ Currency_free_balance(Storage, bench_instance(bench))
           < fixtures.before + call_value(runtime)
    /\ ContractInfoOf_get(Storage, bench_instance(bench)).kind = "Alive"

(***************************************************************************)
(* C23: in the claim_surcharge benchmark the contract is alive once the    *)
(* setup has instantiated it; the setup moves the block height to          *)
(* eviction_at + SignedClaimHandicap + 5; the claim is dispatched by the   *)
(* instantiating caller and succeeds; from then on the contract is a       *)
(* tombstone, the caller's free balance is funding - endowment +           *)
(* SurchargeReward, and the verify block ends with Ok.                     *)
(***************************************************************************)
C23_ClaimVerified ==
    bench.name = "claim_surcharge" =>
        /\ (phase = "setup" /\ stmt \in 2..3) =>
               /\ ensure_alive(Storage, CallInstance.account_id).ok
               /\ Currency_free_balance(Storage, CallInstance.caller)
                      = funding - CallInstance.endowment
        /\ (At("set_block_number") /\ phase = "setup") =>
               LET at == eviction_at(Storage, runtime, Current.who)
                   moved == block_relative_to(at, Current.mode, runtime)
               IN  /\ at.result.ok
                   /\ moved.result.ok
                   /\ moved.state.block_number
                          = at.result.value + runtime.signed_claim_handicap + 5
                   /\ ensure_alive(moved.state, Current.who).ok
        /\ dispatched # <<>> =>
               /\ dispatched[1].extrinsic.name = "claim_surcharge"
               /\ dispatched[1].extrinsic.origin = CallInstance.caller
               /\ dispatched[1].extrinsic.dest = CallInstance.account_id
               /\ dispatched[1].result.ok
               /\ ensure_tombstone(Storage, CallInstance.account_id).ok
               /\ Currency_free_balance(Storage, CallInstance.caller)
                      = funding - CallInstance.endowment + runtime.surcharge_reward
               /\ phase = "done" => outcome # None /\ outcome[1].ok

\* The claim_surcharge benchmark ran through: a tombstone and a rewarded caller.
C23_Witness ==
    /\ bench.name = "claim_surcharge"
    /\ phase = "done"
    /\ stmt = Len(bench.verify) + 1
    /\ Len(dispatched) = 1
    /\ outcome[1].ok
    /\ ContractInfoOf_get(Storage, bench_instance(bench)).kind = "Tombstone"
    /\ runtime.surcharge_reward > 0
    /\ Currency_free_balance(Storage, instantiator)
           > funding - Endow("CollectRent", runtime).endowment

\* The restoration benchmarks, their destination and their restoring contract.
RestoreBenchmarks == {"seal_restore_to", "seal_restore_to_per_delta"}
DestinationKind == ContractInfoOf_get(Storage, tombstone_address).kind
RestorerStorage == ContractInfoOf_get(Storage, bench_instance(bench)).storage
RestoreDelta ==
    IF bench.name = "seal_restore_to_per_delta" THEN bench.setup[4].items ELSE <<>>
SetupEnded == phase = "setup" /\ stmt = Len(bench.setup) + 1

\* The body the catalog entry's emission policy gives, and its restore call-sites.
EmittedBody(entry) ==
    CASE entry.policy = "body" -> body(entry.sequence)
      [] entry.policy = "body_repeated" -> body_repeated(entry.repetitions, entry.sequence)
      [] entry.policy = "body_counted" -> body_counted(entry.repetitions, entry.counted)
RestoreCallSites ==
    Len(CallSites(EmittedBody(
        IF bench.name = "seal_restore_to"
        THEN seal_restore_to(bench.r, runtime)
        ELSE seal_restore_to_per_delta(bench.r, runtime))))

\* The measured call of a restoration benchmark, as a step.
RestoreMeasured ==
    /\ bench.name \in RestoreBenchmarks
    /\ dispatched = <<>>
    /\ dispatched' # <<>>

(***************************************************************************)
(* C24: in seal_restore_to and seal_restore_to_per_delta, when the setup   *)
(* has ended the destination is a tombstone and the restoring contract's   *)
(* storage holds exactly the tombstone's snapshot, plus the delta items in *)
(* the per-delta benchmark.  The call body holds r restore call-sites in   *)
(* seal_restore_to and one in seal_restore_to_per_delta.  The measured     *)
(* call succeeds; it leaves the destination alive, with the snapshot as    *)
(* its storage, when the body makes the host call, and a tombstone when    *)
(* r = 0 in seal_restore_to.  The destination stays so through verify,     *)
(* which ends with Ok.                                                     *)
(***************************************************************************)
C24_Restoration ==
    /\ [](bench.name \in RestoreBenchmarks =>
            /\ RestoreCallSites = Len(bench.host_calls)
            /\ bench.name = "seal_restore_to" => Len(bench.host_calls) = bench.r
            /\ bench.name = "seal_restore_to_per_delta" => Len(bench.host_calls) = 1
            /\ SetupEnded =>
                   /\ ensure_tombstone(Storage, tombstone_address).ok
                   /\ fixtures.tombstones[1].contract.account_id = tombstone_address
                   /\ HoldsExactly(RestorerStorage,
                                   fixtures.tombstones[1].storage \o RestoreDelta)
            /\ dispatched # <<>> =>
                   /\ dispatched[1].result.ok
                   /\ DestinationKind
                          = IF bench.host_calls # <<>> THEN "Alive" ELSE "Tombstone"
                   /\ DestinationKind = "Alive" =>
                          HoldsExactly(
                              ContractInfoOf_get(Storage, tombstone_address).storage,
                              fixtures.tombstones[1].storage)
                   /\ phase = "done" => outcome # None /\ outcome[1].ok)
    /\ [][RestoreMeasured =>
            /\ SetupEnded
            /\ DestinationKind = "Tombstone"
            /\ DestinationKind' = IF bench.host_calls # <<>> THEN "Alive" ELSE "Tombstone"
            /\ bench.host_calls = <<>> =>
                   UNCHANGED <<free_balance, code_storage, contract_info_of>>]_vars

\* A tombstone of ten items was restored by seal_restore_to.
C24_Witness ==
    /\ bench.name = "seal_restore_to"
    /\ bench.r = 1
    /\ phase = "done"
    /\ outcome[1].ok
    /\ Len(dispatched) = 1
    /\ Len(fixtures.tombstones[1].storage) = seal_restore_to_stor_num
    /\ DestinationKind = "Alive"

\* seal_terminate's balances.
ContractTotal == Currency_total_balance(Storage, bench_instance(bench))
BeneficiaryTotal == Currency_total_balance(Storage, beneficiary)

(***************************************************************************)
(* C25: in seal_terminate, once the contract is instantiated and until the *)
(* measured call, the beneficiary's total balance is 0 and the contract's  *)
(* is max_endowment; the call body makes the terminate host call exactly   *)
(* when r > 0; the measured call succeeds; after it, with r > 0 the        *)
(* contract's total balance is 0, the beneficiary's is max_endowment and   *)
(* no contract is left at the address, and with r = 0 both balances are    *)
(* what they were; the sum of the two is max_endowment throughout, and     *)
(* the scenario ends with Ok.                                              *)
(***************************************************************************)
C25_TerminateMovesBalance ==
    bench.name = "seal_terminate" =>
        /\ Len(CallSites(EmittedBody(seal_terminate(bench.r, runtime))))
               = Len(bench.host_calls)
        /\ Len(bench.host_calls) = bench.r
        /\ (fixtures.contracts # <<>> /\ dispatched = <<>>) =>
               /\ BeneficiaryTotal = 0
               /\ ContractTotal = max_endowment(runtime)
               /\ fixtures.contracts[1].account_id = bench_instance(bench)
               /\ ensure_alive(Storage, bench_instance(bench)).ok
        /\ fixtures.contracts # <<>> =>
               /\ ContractTotal + BeneficiaryTotal = max_endowment(runtime)
               /\ Currency_total_balance(Storage, instantiator)
                      = funding - max_endowment(runtime)
        /\ dispatched # <<>> =>
               /\ dispatched[1].extrinsic.name = "call"
               /\ dispatched[1].extrinsic.dest = bench_instance(bench)
               /\ dispatched[1].extrinsic.value = 0
               /\ dispatched[1].result.ok
               /\ bench.r > 0 =>
                      /\ ContractTotal = 0
                      /\ BeneficiaryTotal = max_endowment(runtime)
                      /\ ContractInfoOf_get(Storage, bench_instance(bench)).kind
                             = NoContractInfo.kind
               /\ bench.r = 0 =>
                      /\ ContractTotal = max_endowment(runtime)
                      /\ BeneficiaryTotal = 0
                      /\ ensure_alive(Storage, bench_instance(bench)).ok
               /\ phase = "done" => outcome # None /\ outcome[1].ok
        /\ phase = "done" => outcome # None /\ outcome[1].ok

\* The contract terminated and the beneficiary holds what it held.
C25_Witness ==
    /\ bench.name = "seal_terminate"
    /\ bench.r = 1
    /\ phase = "done"
    /\ outcome[1].ok
    /\ stmt = Len(bench.verify) + 1
    /\ ContractTotal = 0
    /\ BeneficiaryTotal = max_endowment(runtime)
    /\ max_endowment(runtime) > 0

\* The setup block has an instantiation and moves the block height by no
\* later statement.
IsInstantiation(statement) == statement.op = "instantiate_contract"
MovesBlock(statement) == statement.op \in {"set_block_number", "create_tombstone"}
InstantiatesLast ==
    \E i \in DOMAIN bench.setup :
        /\ IsInstantiation(bench.setup[i])
        /\ \A j \in (i + 1)..Len(bench.setup) : ~MovesBlock(bench.setup[j])
\* The block the pallet instantiated the benchmark's contract at.
InstantiatedAt == ContractInfoOf_get(Storage, bench_instance(bench)).deduct_block

(***************************************************************************)
(* C26: every instantiate_contract statement of a setup block runs the     *)
(* pallet's instantiate at block height 1 and leaves the height at 1.  In  *)
(* every scenario whose setup moves the block height by no statement after *)
(* its last instantiation, the height is 1 from that instantiation to the  *)
(* end of the scenario: the measured extrinsic runs at height 1, the       *)
(* height the benchmark's contract was instantiated at, and the            *)
(* benchmarking system's bump of a block number 0 does not apply.          *)
(***************************************************************************)
C26_SameBlock ==
    /\ [](At("instantiate_contract") =>
            LET out == instantiate_contract_from_account(Storage, runtime, Current.who,
                           Current.module, <<>>, Current.endowment)
            IN  /\ out.state.block_number = 1
                /\ out.result.ok =>
                       ContractInfoOf_get(out.state, InstantiateAddress).deduct_block = 1)
    /\ [](InstantiatesLast /\ fixtures.contracts # <<>>
              /\ (phase = "setup" => stmt > Len(bench.setup)) =>
            /\ block_number = 1
            /\ dispatched = <<>> =>
                   /\ benchmarking_block(Storage) = Storage
                   /\ InstantiatedAt = block_number)
    /\ [][(InstantiatesLast /\ dispatched = <<>> /\ dispatched' # <<>>) =>
            /\ block_number = 1
            /\ block_number' = 1
            /\ InstantiatedAt = 1
            /\ benchmarking_block(Storage).block_number = block_number]_vars

\* seal_caller's call was measured at the block of the instantiation.
C26_Witness ==
    /\ bench.name = "seal_caller"
    /\ InstantiatesLast
    /\ Len(dispatched) = 1
    /\ dispatched[1].result.ok
    /\ block_number = 1
    /\ phase = "done"

\* The targets sized_code is tried at besides the benchmark's n * 1024.
MaxTarget == 300

\* The size of the encoded module and the number of expansions emitted.
SizedLen(target_bytes) == Len(catalog_code(sized_code(target_bytes)).code)
SizedExpansions(target_bytes) == sized_code(target_bytes).repetitions
\* The bytes the two leb128 size fields (the call body's and the code
\* section's) take beyond their one byte in the base module.
SizeFieldsGrowth(expansions) ==
    (Len(VarUint32(2 + 6 * expansions)) - 1)
        + (Len(VarUint32(4 + Len(VarUint32(2 + 6 * expansions)) + 2 + 6 * expansions)) - 1)

SizedFits(target_bytes, len) ==
    /\ SizedExpansions(target_bytes) = Max(0, ((target_bytes - 47) \div 6) - 1)
    /\ target_bytes < 47 => SizedExpansions(target_bytes) = 0
    /\ len = 47 + 6 * SizedExpansions(target_bytes)
                 + SizeFieldsGrowth(SizedExpansions(target_bytes))
    /\ target_bytes >= 47 => len <= target_bytes
    /\ target_bytes < 47 => len = 47
    /\ target_bytes <= max_code_size => len <= max_code_size

(***************************************************************************)
(* C27: the module without expansions encodes to 47 bytes and one          *)
(* expansion to 6.  For every target of put_code, n * 1024 with n in       *)
(* 0 .. max_code_size / 1024, and for every target from 0 to MaxTarget,    *)
(* sized_code emits max(0, floor((target - 47) / 6) - 1) expansions; the   *)
(* encoded module has 47 bytes plus 6 per expansion plus the growth of the *)
(* two leb128 size fields; that is at most the target when the target is   *)
(* 47 or more, and 47 otherwise; it is never more than max_code_size, and  *)
(* the measured put_code accepts the module.                               *)
(***************************************************************************)
C27_SizedCodeFits ==
    bench.name = "put_code" =>
        /\ Len(dummy_code.code) = 47
        /\ Len(serialize_instructions(EXPANSION)) = 6
        /\ bench.module = catalog_code(sized_code(bench.r * 1024))
        /\ SizedFits(bench.r * 1024, Len(bench.module.code))
        /\ Len(bench.module.code) <= max_code_size
        /\ \A target_bytes \in 0..MaxTarget :
               SizedFits(target_bytes, SizedLen(target_bytes))
        /\ dispatched # <<>> =>
               /\ dispatched[1].extrinsic.name = "put_code"
               /\ dispatched[1].extrinsic.data = bench.module.code
               /\ dispatched[1].result.ok
               /\ bench.module.hash \in code_storage
        /\ phase = "done" => outcome # None /\ outcome[1].ok

\* put_code accepted the module sized for the largest target, whose size
\* fields take three bytes each.
C27_Witness ==
    /\ bench.name = "put_code"
    /\ bench.r * 1024 = max_code_size
    /\ phase = "done"
    /\ outcome[1].ok
    /\ Len(dispatched) = 1
    /\ SizeFieldsGrowth(SizedExpansions(bench.r * 1024)) = 4
    /\ Len(bench.module.code) > max_code_size - 6
    /\ bench.module.hash \in code_storage

\* The instruction sequence under a vector of Regular items.
OnlyRegular(counted) == \A k \in DOMAIN counted : counted[k].kind = "Regular"
Underlying(counted) == [k \in DOMAIN counted |-> counted[k].instruction]
\* body_counted is running or has run on this scenario's vector.
Counting ==
    /\ params.policy = "body_counted"
    /\ pc = "counting" \/ call_body # None
\* How often the map has read the slot so far.
Reads(slot) == Cardinality(Repetitions(slot))

(***************************************************************************)
(* C28: for every repetition count N, body_counted on a vector of Regular  *)
(* items gives the body body_repeated gives on the instructions under      *)
(* them, and while it runs it has yielded a prefix of that body.  In any   *)
(* vector every Counter slot holds base + reads * increment, with reads    *)
(* the number of times the slot itself was read, whatever the other slots  *)
(* are; one step of the map changes the slot it reads, by that slot's      *)
(* increment if it is a Counter, and no other slot.                        *)
(***************************************************************************)
C28_CountedRefinesRepeated ==
    /\ []((Counting /\ OnlyRegular(params.counted)) =>
            /\ call_body # None =>
                   call_body[1] = body_repeated(params.repetitions,
                                                Underlying(params.counted))
            /\ pc = "counting" =>
                   /\ Len(collected) <= Len(params.counted) * params.repetitions
                   /\ collected = SubSeq(body_repeated(params.repetitions,
                                             Underlying(params.counted)).code,
                                         1, Len(collected))
            /\ instructions = params.counted)
    /\ [](Counting =>
            /\ Len(instructions) = Len(params.counted)
            /\ \A slot \in DOMAIN params.counted :
                   instructions[slot] =
                       IF params.counted[slot].kind = "Counter"
                       THEN Counter(params.counted[slot].offset
                                        + Reads(slot) * params.counted[slot].increment_by,
                                    params.counted[slot].increment_by)
                       ELSE params.counted[slot])
    /\ [][(pc = "counting" /\ collected' # collected) =>
            LET read == (Len(collected) % Len(instructions)) + 1
            IN  /\ \A slot \in DOMAIN instructions \ {read} :
                       instructions'[slot] = instructions[slot]
                /\ instructions[read].kind = "Counter" =>
                       /\ collected' = Append(collected, I32Const(instructions[read].offset))
                       /\ instructions'[read] =
                              Counter(instructions[read].offset
                                          + instructions[read].increment_by,
                                      instructions[read].increment_by)
                /\ instructions[read].kind = "Regular" =>
                       /\ collected' = Append(collected, instructions[read].instruction)
                       /\ instructions'[read] = instructions[read]]_vars

\* Two Counter slots with different increments, three repetitions.
C28_Witness ==
    /\ params.policy = "body_counted"
    /\ params.counted = <<Counter(0, 2), Counter(1, 3)>>
    /\ params.repetitions = 3
    /\ call_body # None
    /\ call_body[1].code = <<I32Const(0), I32Const(1), I32Const(2), I32Const(4),
                             I32Const(4), I32Const(7), End>>
    /\ instructions = <<Counter(6, 2), Counter(10, 3)>>

\* The restoring contract's record, and the step a statement of the setup
\* block of a restoration benchmark takes when it returns Ok.
Restorer == ContractInfoOf_get(Storage, bench_instance(bench))
RestoreStep(op) ==
    /\ bench.name \in RestoreBenchmarks
    /\ At(op)
    /\ phase = "setup"
    /\ stmt' = stmt + 1
\* The state create_tombstone computes the eviction block in.
TombstoneStored ==
    store_items(instantiate_contract(Storage, runtime, dummy_code, <<>>,
                                     "CollectRent").state,
                tombstone_address,
                create_storage(Current.number[1], Current.number[2])).state

(***************************************************************************)
(* C29: in seal_restore_to and seal_restore_to_per_delta, create_tombstone *)
(* leaves the block height at eviction_at + SignedClaimHandicap + 5, above *)
(* 1; the instantiation of the restoring contract sets it back to 1; the   *)
(* storage is seeded at height 1; the last statement of the setup raises   *)
(* the height by exactly one, to 2.  The measured call runs at height 2,   *)
(* above the height the restoring contract was instantiated at and above   *)
(* the height of its last storage write, with the destination a tombstone  *)
(* when the call starts.                                                   *)
(***************************************************************************)
C29_RestoreBlocks ==
    /\ [][RestoreStep("create_tombstone") =>
            /\ block_number' = eviction_at(TombstoneStored, runtime, tombstone_address)
                                   .result.value + runtime.signed_claim_handicap + 5
            /\ block_number' > 1
            /\ DestinationKind' = "Tombstone"]_vars
    /\ [][RestoreStep("instantiate_contract") =>
            /\ block_number > 1
            /\ block_number' = 1
            /\ Restorer'.kind = "Alive"
            /\ Restorer'.deduct_block = 1]_vars
    /\ [][RestoreStep("store_items") =>
            /\ block_number = 1
            /\ block_number' = 1
            /\ Restorer'.storage # Restorer.storage => Restorer'.last_write = Some(1)]_vars
    /\ [][RestoreStep("set_block_number") =>
            /\ stmt = Len(bench.setup)
            /\ block_number = 1
            /\ block_number' = block_number + 1]_vars
    /\ [][RestoreMeasured =>
            /\ block_number = 2
            /\ block_number' = 2
            /\ block_number > Restorer.deduct_block
            /\ Restorer.last_write # None => block_number > Restorer.last_write[1]
            /\ Restorer.storage # EmptyMap => Restorer.last_write = Some(1)
            /\ DestinationKind = "Tombstone"
            /\ dispatched'[1].result.ok]_vars

\* seal_restore_to was measured at block 2 on a contract seeded at block 1.
C29_Witness ==
    /\ bench.name = "seal_restore_to"
    /\ bench.r = 1
    /\ Len(dispatched) = 1
    /\ dispatched[1].result.ok
    /\ block_number = 2
    /\ DestinationKind = "Alive"
    /\ ContractInfoOf_get(Storage, tombstone_address).last_write = Some(2)

\* The number a little-endian byte string stands for.
RECURSIVE from_le_bytes(_)
from_le_bytes(bytes) ==
    IF bytes = <<>> THEN 0 ELSE Head(bytes) + 256 * from_le_bytes(Tail(bytes))

\* A region [lo, hi) of linear memory; an empty one overlaps nothing.
Region(lo, len) == [lo |-> lo, hi |-> lo + len]
RegionsApart(a, b) == a.hi <= b.lo \/ b.hi <= a.lo \/ a.lo = a.hi \/ b.lo = b.hi

\* The regions repetition j (0-based) of the emitted call body of
\* seal_instantiate_per_input_output_kb hands to seal_instantiate: the
\* operands are read off the emitted instructions, the lengths off the
\* emitted data segments that initialize the two length cells.
PerKbOperand(module, j, slot) == module.code[2].code[j * 18 + slot].arg
PerKbAddressLenCell(module, j) == Region(PerKbOperand(module, j, 9), 4)
PerKbOutputLenCell(module, j) == Region(PerKbOperand(module, j, 11), 4)
PerKbAddressBuffer(module, j) ==
    Region(PerKbOperand(module, j, 8), from_le_bytes(module.data[4].value))
PerKbOutputBuffer(module, j) ==
    Region(PerKbOperand(module, j, 10), from_le_bytes(module.data[5].value))
PerKbBuilt ==
    {r \in DOMAIN built : params.scenario = "seal_instantiate_per_input_output_kb"}

\* The two length cells lie apart from each other and from both buffers, in
\* every repetition and across repetitions.
PerKbCellsApart ==
    \A r \in PerKbBuilt : \A j, k \in 0..(API_BENCHMARK_BATCH_SIZE - 1) :
        LET module == built[r].module
        IN  /\ RegionsApart(PerKbAddressLenCell(module, j), PerKbOutputLenCell(module, k))
            /\ RegionsApart(PerKbAddressLenCell(module, j), PerKbAddressBuffer(module, k))
            /\ RegionsApart(PerKbAddressLenCell(module, j), PerKbOutputBuffer(module, k))
            /\ RegionsApart(PerKbOutputLenCell(module, j), PerKbAddressBuffer(module, k))
            /\ RegionsApart(PerKbOutputLenCell(module, j), PerKbOutputBuffer(module, k))

(***************************************************************************)
(* C30: in seal_instantiate_per_input_output_kb, for every i and o and     *)
(* every account-id length, the address-length cell, the output-length     *)
(* cell, the address buffer and the output buffer the call body names are  *)
(* pairwise disjoint, in every repetition and from one repetition to a     *)
(* later one.  The emitted module does not have this property: the address *)
(* buffer starts at addr_len_offset + addr_len, inside the output buffer   *)
(* that starts at addr_len_offset + 8, as soon as o > 0.                   *)
(***************************************************************************)
C30_RegionsDisjoint ==
    /\ PerKbCellsApart
    /\ \A r \in PerKbBuilt : \A j, k \in 0..(API_BENCHMARK_BATCH_SIZE - 1) :
           RegionsApart(PerKbAddressBuffer(built[r].module, j),
                        PerKbOutputBuffer(built[r].module, k))

\* A module with o > 0 was built: its address buffer lies in its output buffer.
C30_Overlap ==
    \E r \in PerKbBuilt :
        /\ PerKbOutputBuffer(built[r].module, 0).hi - PerKbOutputBuffer(built[r].module, 0).lo
               = 1024
        /\ PerKbOutputBuffer(built[r].module, 0).lo
               <= PerKbAddressBuffer(built[r].module, 0).lo
        /\ PerKbAddressBuffer(built[r].module, 0).hi
               <= PerKbOutputBuffer(built[r].module, 0).hi
        /\ PerKbAddressBuffer(built[r].module, 0).hi
               > PerKbAddressBuffer(built[r].module, 0).lo

=============================================================================
